---- MODULE Spec2Model ----
(***************************************************************************)
(* A model of PyOTRS's session lifecycle and request/response engine       *)
(* (src/lib.py): the SessionStore credential file, the Client's session    *)
(* set-up, the public ticket / FAQ / link operations, the request builder  *)
(* and the response interpreter.                                           *)
(*                                                                         *)
(* Python values are tagged records; a Python string is a sequence of text *)
(* chunks (the empty sequence is the empty string), so that json escaping  *)
(* and str()/int() conversions are computed, not assumed.                  *)
(***************************************************************************)
EXTENDS Integers, Sequences, FiniteSets, TLC

VARIABLES
    file,     \* the credential file on disc: exists, owner, mode, content
    now,      \* the wall clock, in ticks (TicksPerSec ticks per second)
    store,    \* the SessionStore object: value, created, expires, timeout
    client,   \* the Client object: operation, result_json, result, _url, ...
    pc,       \* position of the running call ("idle" between calls)
    frame,    \* the running call: its name and the pending write() call
    events,   \* what the running (or last) top-level call did, in order
    last,     \* outcome of the last finished top-level call
    calls     \* number of calls made on the Client so far

vars == <<file, now, store, client, pc, frame, events, last, calls>>

-----------------------------------------------------------------------------
(* Bounds of the model *)

\* clock resolution: utcnow() is finer than the whole seconds of 'created'
TicksPerSec == 2
\* largest session_timeout a store is constructed with
MaxTimeout == 1
\* ticks of clock modelled after each whole number of minutes
ClockSlack == 2
\* calls of Client methods in one behaviour
MaxCalls == 2

-----------------------------------------------------------------------------
(* Python values *)

PyNone == [t |-> "none"]
PyStr(s) == [t |-> "str", s |-> s]
PyInt(n) == [t |-> "int", n |-> n]
PyBool(b) == [t |-> "bool", b |-> b]
PyList(l) == [t |-> "list", l |-> l]
PyDict(d) == [t |-> "dict", d |-> d]

\* Python truth value testing, as used by "if not x"
Truthy(v) ==
    CASE v.t = "none" -> FALSE
      [] v.t = "str"  -> v.s # <<>>
      [] v.t = "int"  -> v.n # 0
      [] v.t = "bool" -> v.b
      [] v.t = "list" -> v.l # <<>>
      [] v.t = "dict" -> DOMAIN v.d # {}
      [] OTHER        -> TRUE

\* the outcome of a call: the exception it raised ("none" if it returned)
\* and the value it returned
Returned(v) == [exc |-> "none", ret |-> v]

\* the value of F at v, with v worked out once (a local variable)
Let(v, F(_)) == CHOOSE y \in {F(x) : x \in {v}} : TRUE

Raised(e) == [exc |-> e, ret |-> PyNone]

-----------------------------------------------------------------------------
(* str(int), int(str) and JSON encoding of the leaves of the record *)

Digits == <<"0", "1", "2", "3", "4", "5", "6", "7", "8", "9">>

RECURSIVE IntToStr(_)
\* str(n) for an int n
IntToStr(n) ==
    IF n < 0 THEN <<"-">> \o IntToStr(-n)
    ELSE IF n < 10 THEN <<Digits[n + 1]>>
    ELSE IntToStr(n \div 10) \o <<Digits[(n % 10) + 1]>>

DigitValue(c) == (CHOOSE i \in 1..10 : Digits[i] = c) - 1

IsDigits(s) == s # <<>> /\ \A i \in 1..Len(s) : \E k \in 1..10 : Digits[k] = s[i]

RECURSIVE DigitsToInt(_)
DigitsToInt(s) ==
    IF s = <<>> THEN 0
    ELSE 10 * DigitsToInt(SubSeq(s, 1, Len(s) - 1)) + DigitValue(s[Len(s)])

\* int(x): a str of decimal digits with an optional sign parses, any other
\* str is a ValueError; an int is itself; None or a list is a TypeError
IntOf(v) ==
    CASE v.t = "int" -> [exc |-> "none", n |-> v.n]
      [] v.t = "str" ->
            IF IsDigits(v.s) THEN [exc |-> "none", n |-> DigitsToInt(v.s)]
            ELSE IF v.s # <<>> /\ v.s[1] = "-" /\ IsDigits(Tail(v.s))
                 THEN [exc |-> "none", n |-> -DigitsToInt(Tail(v.s))]
            ELSE [exc |-> "ValueError", n |-> 0]
      [] OTHER -> [exc |-> "TypeError", n |-> 0]

RECURSIVE JsonEscape(_)
\* the body of a JSON string literal for a str: quote and backslash escaped
JsonEscape(s) ==
    IF s = <<>> THEN <<>>
    ELSE (IF Head(s) = "\"" THEN <<"\\", "\"">>
          ELSE IF Head(s) = "\\" THEN <<"\\", "\\">>
          ELSE <<Head(s)>>) \o JsonEscape(Tail(s))

RECURSIVE JsonUnescape(_)
JsonUnescape(e) ==
    IF e = <<>> THEN <<>>
    ELSE IF Head(e) = "\\" /\ Len(e) >= 2
         THEN <<e[2]>> \o JsonUnescape(Tail(Tail(e)))
    ELSE <<Head(e)>> \o JsonUnescape(Tail(e))

\* json.dumps of a leaf value
JsonDumps(v) ==
    CASE v.t = "none" -> [j |-> "null"]
      [] v.t = "str"  -> [j |-> "string", e |-> JsonEscape(v.s)]
      [] v.t = "int"  -> [j |-> "number", n |-> v.n]
      [] OTHER        -> [j |-> "array"]

\* json.loads of a leaf
JsonLoads(x) ==
    CASE x.j = "null"   -> PyNone
      [] x.j = "string" -> PyStr(JsonUnescape(x.e))
      [] x.j = "number" -> PyInt(x.n)
      [] OTHER          -> PyList(<<>>)

\* json.loads of the file's text: not JSON is a ValueError; a JSON object
\* becomes a dict; any other JSON text becomes its value
JsonLoadsText(content) ==
    CASE content.k = "garbage" -> [ok |-> FALSE, data |-> PyNone]
      [] content.k = "object"  ->
            [ok |-> TRUE,
             data |-> PyDict([key \in DOMAIN content.m |-> JsonLoads(content.m[key])])]
      [] OTHER -> [ok |-> TRUE, data |-> JsonLoads(content.v)]

-----------------------------------------------------------------------------
(* The credential file and the clock *)

\* 0600, the mode write() forces and the trust check demands
OwnerReadWrite == 384
\* the nine permission bits: st_mode & 0o777 is st_mode % 512
PermissionBits == 512
\* the file-type bits lstat() reports for a regular file (S_IFREG)
RegularFile == 32768
\* timedelta(minutes=...) of read(): seconds in a minute
SecondsPerMinute == 60

\* os.getuid() and some other user
SelfUid == "uid_self"
OtherUid == "uid_other"

\* mode bits a file may carry: 0600, 0644, 0400 and 04600 (setuid, rw-------)
FileModes == {384, 420, 256, 2432}
\* mode of a file that open(path, 'w') creates: 0666 less the umask
CreateModes == {384, 420, 436}

NoFile == [exists |-> FALSE, owner |-> SelfUid, mode |-> 0,
           content |-> [k |-> "garbage"]]

\* tokens the remote issues (the second needs escaping in JSON)
Tokens == {<<"abc123">>, <<"x", "\"", "\\", "y">>}

\* a record whose 'created' is str(time.time()), the int() left out
RecordTextFloatCreated(clock, value) ==
    [k |-> "object",
     m |-> [created    |-> JsonDumps(PyStr(IntToStr(clock \div TicksPerSec) \o <<".", "5">>)),
            session_id |-> JsonDumps(value)]]

\* the text write() produces: json.dumps({'created': str(int(time.time())),
\*                                        'session_id': self.value})
RecordText(clock, value) ==
    [k |-> "object",
     m |-> [created    |-> JsonDumps(PyStr(IntToStr(clock \div TicksPerSec))),
            session_id |-> JsonDumps(value)]]

\* instants the clock takes: the first ticks, and the ticks around each
\* whole number of minutes up to MaxTimeout
Instants ==
    (0 .. ClockSlack) \cup
    { k * SecondsPerMinute * TicksPerSec + j :
        k \in 1..MaxTimeout, j \in (-1)..ClockSlack }

\* texts another writer may leave in the file: not JSON, JSON that is no
\* object, objects lacking a key, and records whose 'created' or token vary
ForeignTexts ==
    { [k |-> "garbage"],
      [k |-> "scalar", v |-> [j |-> "array"]],
      [k |-> "scalar", v |-> [j |-> "string", e |-> <<"abc123">>]],
      [k |-> "object", m |-> <<>>],
      [k |-> "object", m |-> [session_id |-> [j |-> "string", e |-> <<"abc123">>]]],
      [k |-> "object", m |-> [created |-> [j |-> "string", e |-> <<"0">>]]] }
    \cup
    { [k |-> "object", m |-> [created |-> c, session_id |-> JsonDumps(PyStr(<<"abc123">>))]] :
        c \in { [j |-> "string", e |-> <<"0">>],
                [j |-> "string", e |-> <<"1">>],
                [j |-> "string", e |-> <<"-", "1">>],
                [j |-> "string", e |-> <<"soon">>],
                [j |-> "string", e |-> <<>>],
                [j |-> "number", n |-> 1],
                [j |-> "null"],
                [j |-> "array"] } }
    \cup
    { [k |-> "object", m |-> [created |-> [j |-> "string", e |-> <<"0">>],
                              session_id |-> JsonDumps(v)]] :
        v \in {PyNone, PyStr(<<>>)} \cup {PyStr(tok) : tok \in Tokens} }

\* texts of the files that fail the trust check (their text is never read)
UntrustedTexts ==
    { [k |-> "garbage"],
      [k |-> "object", m |-> [created |-> [j |-> "string", e |-> <<"0">>],
                              session_id |-> JsonDumps(PyStr(<<"abc123">>))]] }

\* what another actor does to the file between two calls: it removes it,
\* or leaves a file of some owner and mode
TamperedFiles ==
    {NoFile} \cup
    { [exists |-> TRUE, owner |-> o, mode |-> m, content |-> c] :
        o \in {SelfUid, OtherUid}, m \in FileModes, c \in UntrustedTexts }

\* the files a store may find when it is constructed
ForeignFiles ==
    TamperedFiles \cup
    { [exists |-> TRUE, owner |-> SelfUid, mode |-> m, content |-> c] :
        m \in {384, 2432}, c \in ForeignTexts }

\* a trust check that looks at the owner only
validate_file_owner_only(f) == f.owner = SelfUid

\* SessionStore._validate_file_owner_and_permissions, for an existing file
validate_file_owner_and_permissions(f) ==
    IF ~(f.owner = SelfUid) THEN FALSE
    ELSE IF ~((RegularFile + f.mode) % PermissionBits = OwnerReadWrite) THEN FALSE
    ELSE TRUE

-----------------------------------------------------------------------------
(* SessionStore.read *)

ReadOutcome(exc, ret, st) == [exc |-> exc, ret |-> ret, store |-> st]

\* expiry test of read(): self.expires > datetime.utcnow(), with expires
\* in whole seconds and the clock in ticks
StillValid(expires, clock) == expires * TicksPerSec > clock

\* SessionStore.read(): the outcome and the store's fields afterwards
read(f, st, clock) ==
    IF ~f.exists THEN ReadOutcome("none", PyNone, st)
    ELSE IF ~validate_file_owner_and_permissions(f) THEN ReadOutcome("none", PyNone, st)
    ELSE
    LET parsed == JsonLoadsText(f.content) IN
    IF ~parsed.ok THEN ReadOutcome("none", PyNone, st)                \* ValueError
    ELSE IF parsed.data.t # "dict" THEN ReadOutcome("Exception", PyNone, st)  \* TypeError
    ELSE IF "session_id" \notin DOMAIN parsed.data.d
         THEN ReadOutcome("none", PyNone, st)                         \* KeyError
    ELSE
    LET st1 == [st EXCEPT !.value = parsed.data.d["session_id"]] IN
    IF "created" \notin DOMAIN parsed.data.d
         THEN ReadOutcome("none", PyNone, st1)                        \* KeyError
    ELSE
    LET c == IntOf(parsed.data.d["created"]) IN
    IF c.exc = "TypeError" THEN ReadOutcome("Exception", PyNone, st1)
    ELSE IF c.exc = "ValueError" THEN ReadOutcome("none", PyNone, st1)
    ELSE
    LET st2 == [st1 EXCEPT !.created = PyInt(c.n),
                           !.expires = PyInt(c.n + SecondsPerMinute * st.timeout)] IN
    IF StillValid(st2.expires.n, clock)
       THEN ReadOutcome("none", st2.value, st2)
       ELSE ReadOutcome("none", PyNone, st2)

-----------------------------------------------------------------------------
(* Calls in progress *)

\* a finished top-level call: its name and arguments, the exception it raised
\* ("none" if it returned), the value it returned, what the exception carries,
\* and the token the store held in memory when the call ended
Outcome(call, args, exc, ret, info, token) ==
    [call |-> call, args |-> args, exc |-> exc, ret |-> ret, info |-> info, token |-> token]

NoArgs == [none |-> TRUE]

\* no call is running; warg and wret are the argument of a write() in
\* progress and where it returns to ("return": its caller returns True)
IdleFrame == [call |-> "none", args |-> NoArgs, warg |-> PyNone, wret |-> "return"]

\* the running top-level call ends: it returns ret or raises exc
Finish(exc, ret) ==
    /\ pc' = "idle"
    /\ last' = Outcome(frame.call, frame.args, exc, ret, PyNone, store'.value)
    /\ frame' = IdleFrame

\* events of a call
WriteEvent(text, mode, existed) ==
    [e |-> "write", text |-> text, mode |-> mode, existed |-> existed]
ChmodEvent == [e |-> "chmod"]

-----------------------------------------------------------------------------
(* SessionStore.write, statement by statement *)

\* write() without its check of the file that is already there
write_check_skipped ==
    /\ UNCHANGED calls
    /\ pc = "w_check"
    /\ store' = [store EXCEPT !.value = frame.warg]
    /\ pc' = "w_open" /\ UNCHANGED <<frame, last>>
    /\ UNCHANGED <<file, now, client, events>>

\* self.value = new_value; then the check of a file that is already there
write_check ==
    /\ UNCHANGED calls
    /\ pc = "w_check"
    /\ store' = [store EXCEPT !.value = frame.warg]
    /\ IF file.exists /\ ~validate_file_owner_and_permissions(file)
       THEN Finish("IOError", PyNone)
       ELSE pc' = "w_open" /\ UNCHANGED <<frame, last>>
    /\ UNCHANGED <<file, now, client, events>>

\* with open(self.file_path, 'w') as f: f.write(json.dumps({...})).  A new
\* file gets the mode the umask leaves; writing a file of another owner, or
\* one without the owner's write bit, is refused by the system
write_open ==
    /\ UNCHANGED calls
    /\ pc = "w_open"
    /\ UNCHANGED <<now, store, client>>
    /\ IF file.exists /\ (file.owner # SelfUid \/ (file.mode \div 128) % 2 = 0)
       THEN Finish("IOError", PyNone) /\ UNCHANGED <<file, events>>
       ELSE /\ \E m \in CreateModes :
                file' = [exists  |-> TRUE,
                         owner   |-> IF file.exists THEN file.owner ELSE SelfUid,
                         mode    |-> IF file.exists THEN file.mode ELSE m,
                         content |-> RecordText(now, store.value)]
            /\ events' = Append(events, WriteEvent(file'.content, file'.mode, file.exists))
            /\ pc' = "w_chmod"
            /\ UNCHANGED <<frame, last>>

\* a chmod that sets the nine permission bits and keeps the bits above them
write_chmod_low_bits ==
    /\ UNCHANGED calls
    /\ pc = "w_chmod"
    /\ UNCHANGED <<now, store, client>>
    /\ IF ~file.exists \/ file.owner # SelfUid
       THEN Finish("OSError", PyNone) /\ UNCHANGED <<file, events>>
       ELSE /\ file' = [file EXCEPT !.mode = (@ - (@ % PermissionBits)) + OwnerReadWrite]
            /\ events' = Append(events, ChmodEvent)
            /\ pc' = "w_validate"
            /\ UNCHANGED <<frame, last>>

\* os.chmod(self.file_path, 384)
write_chmod ==
    /\ UNCHANGED calls
    /\ pc = "w_chmod"
    /\ UNCHANGED <<now, store, client>>
    /\ IF ~file.exists \/ file.owner # SelfUid
       THEN Finish("OSError", PyNone) /\ UNCHANGED <<file, events>>
       ELSE /\ file' = [file EXCEPT !.mode = OwnerReadWrite]
            /\ events' = Append(events, ChmodEvent)
            /\ pc' = "w_validate"
            /\ UNCHANGED <<frame, last>>

\* the check after writing, and "return True" to the caller of write()
write_validate ==
    /\ UNCHANGED calls
    /\ pc = "w_validate"
    /\ UNCHANGED <<file, now, store, client, events>>
    /\ IF ~file.exists \/ ~validate_file_owner_and_permissions(file)
       THEN Finish("IOError", PyNone)
       ELSE IF frame.wret = "return"
       THEN Finish("none", PyBool(TRUE))
       ELSE pc' = frame.wret /\ UNCHANGED <<frame, last>>

-----------------------------------------------------------------------------
(* Calls on the SessionStore itself, the clock and other actors *)

\* a caller runs store.read()
store_read ==
    /\ UNCHANGED calls
    /\ pc = "idle"
    /\ LET r == read(file, store, now) IN
        /\ store' = r.store
        /\ last' = Outcome("read", NoArgs, r.exc, r.ret, PyNone, r.store.value)
    /\ events' = <<>>
    /\ UNCHANGED <<file, now, client, pc, frame>>

\* a caller runs store.write(new_value)
store_write ==
    /\ UNCHANGED calls
    /\ pc = "idle"
    /\ \E v \in {PyNone, PyStr(<<>>)} \cup {PyStr(t) : t \in Tokens} :
        frame' = [call |-> "write", args |-> [new_value |-> v], warg |-> v, wret |-> "return"]
    /\ pc' = "w_check"
    /\ events' = <<>>
    /\ UNCHANGED <<file, now, store, client, last>>

\* a delete() that removes the file and forgets the value
delete_removes_file(f, st) ==
    [exc |-> "none", ret |-> PyBool(TRUE), file |-> NoFile,
     store |-> [st EXCEPT !.value = PyNone]]

\* SessionStore.delete(): raise NotImplementedError("Not yet done")
delete(f, st) ==
    [exc |-> "NotImplementedError", ret |-> PyNone, file |-> f, store |-> st]

\* a caller runs store.delete()
store_delete ==
    /\ UNCHANGED calls
    /\ pc = "idle"
    /\ \E o \in {delete(file, store)} :
        /\ file' = o.file
        /\ store' = o.store
        /\ last' = Outcome("delete", NoArgs, o.exc, o.ret, PyNone, o.store.value)
    /\ events' = <<>>
    /\ UNCHANGED <<now, client, pc, frame>>

\* time passes between two calls; a call itself takes no time
Tick ==
    /\ UNCHANGED calls
    /\ pc = "idle"
    /\ \E n \in Instants : n > now /\ now' = n
    /\ UNCHANGED <<file, store, client, pc, frame, events, last>>

\* between two calls another actor replaces, removes or re-modes the file
Tamper(files) ==
    /\ UNCHANGED calls
    /\ pc = "idle"
    /\ \E f \in files : f # file /\ file' = f
    /\ last' = Outcome("tamper", NoArgs, "none", PyNone, PyNone, store.value)
    /\ UNCHANGED <<now, store, client, pc, frame, events>>

TamperAny == Tamper(TamperedFiles)

NewStore(timeout) ==
    [value |-> PyNone, created |-> PyNone, expires |-> PyNone, timeout |-> timeout]

-----------------------------------------------------------------------------
(* The operation registry and Client.__init__ *)

TICKET_CONNECTOR_CONFIG_DEFAULT ==
    [Name |-> "KomandConnectorREST",
     Config |->
       [SessionCreate |-> [RequestMethod |-> "POST", Route |-> <<"/Session">>,
                           Result |-> "SessionID"],
        TicketCreate  |-> [RequestMethod |-> "POST", Route |-> <<"/Ticket">>,
                           Result |-> "TicketID"],
        TicketGet     |-> [RequestMethod |-> "GET", Route |-> <<"/Ticket/", ":", "TicketID">>,
                           Result |-> "Ticket"],
        TicketGetList |-> [RequestMethod |-> "GET", Route |-> <<"/TicketList">>,
                           Result |-> "Ticket"],
        TicketSearch  |-> [RequestMethod |-> "GET", Route |-> <<"/Search">>,
                           Result |-> "TicketID"],
        TicketUpdate  |-> [RequestMethod |-> "PATCH", Route |-> <<"/Update/", ":", "TicketID">>,
                           Result |-> "TicketID"]]]

FAQ_CONNECTOR_CONFIG_DEFAULT ==
    [Name |-> "GenericFAQConnectorREST",
     Config |->
       [LanguageList       |-> [RequestMethod |-> "GET", Route |-> <<"/LanguageList">>,
                                Result |-> "Language"],
        PublicCategoryList |-> [RequestMethod |-> "GET", Route |-> <<"/PublicCategoryList">>,
                                Result |-> "Category"],
        PublicFAQGet       |-> [RequestMethod |-> "GET", Route |-> <<"/PublicFAQGet">>,
                                Result |-> "FAQItem"],
        PublicFAQSearch    |-> [RequestMethod |-> "POST", Route |-> <<"/PublicFAQSearch">>,
                                Result |-> "ID"]]]

LINK_CONNECTOR_CONFIG_DEFAULT ==
    [Name |-> "GenericLinkConnectorREST",
     Config |->
       [LinkAdd       |-> [RequestMethod |-> "POST", Route |-> <<"/LinkAdd">>,
                           Result |-> "LinkAdd"],
        LinkDelete    |-> [RequestMethod |-> "DELETE", Route |-> <<"/LinkDelete">>,
                           Result |-> "LinkDelete"],
        LinkDeleteAll |-> [RequestMethod |-> "DELETE", Route |-> <<"/LinkDeleteAll">>,
                           Result |-> "LinkDeleteAll"],
        LinkList      |-> [RequestMethod |-> "GET", Route |-> <<"/LinkList">>,
                           Result |-> "LinkList"],
        PossibleLinkList    |-> [RequestMethod |-> "GET", Route |-> <<"/PossibleLinkList">>,
                                 Result |-> "PossibleLinkList"],
        PossibleObjectsList |-> [RequestMethod |-> "GET", Route |-> <<"/PossibleObjectsList">>,
                                 Result |-> "PossibleObject"],
        PossibleTypesList   |-> [RequestMethod |-> "GET", Route |-> <<"/PossibleTypesList">>,
                                 Result |-> "PossibleType"]]]

\* dict.update: the keys of 'other' replace those of 'd'
DictUpdate(d, other) == other @@ d

RoutesOf(config) == {config[o].Route : o \in DOMAIN config}

\* a webservice_config_ticket of the caller's own: the default operations
\* under another connector name
TicketConnectorRenamed ==
    [TICKET_CONNECTOR_CONFIG_DEFAULT EXCEPT !.Name = "MyTicketConnector"]

\* a webservice_config_ticket whose TicketGet route has another placeholder
TicketConnectorByNumber ==
    [TICKET_CONNECTOR_CONFIG_DEFAULT EXCEPT
        !.Config.TicketGet.Route = <<"/TicketByNumber/", ":", "TicketNumber">>]

\* a webservice_config_faq that has an operation named like one of the
\* ticket table
FaqConnectorWithTicketSearch ==
    [FAQ_CONNECTOR_CONFIG_DEFAULT EXCEPT
        !.Config = ("TicketSearch" :> [RequestMethod |-> "POST",
                                       Route |-> <<"/FAQTicketSearch">>,
                                       Result |-> "ID"]) @@ @]

\* the connector configurations a Client is constructed with
ConnectorSetups ==
    [default     |-> [ticket |-> TICKET_CONNECTOR_CONFIG_DEFAULT,
                      faq    |-> FAQ_CONNECTOR_CONFIG_DEFAULT,
                      link   |-> LINK_CONNECTOR_CONFIG_DEFAULT],
     renamed     |-> [ticket |-> TicketConnectorRenamed,
                      faq    |-> FAQ_CONNECTOR_CONFIG_DEFAULT,
                      link   |-> LINK_CONNECTOR_CONFIG_DEFAULT],
     placeholder |-> [ticket |-> TicketConnectorByNumber,
                      faq    |-> FAQ_CONNECTOR_CONFIG_DEFAULT,
                      link   |-> LINK_CONNECTOR_CONFIG_DEFAULT],
     shared      |-> [ticket |-> TICKET_CONNECTOR_CONFIG_DEFAULT,
                      faq    |-> FaqConnectorWithTicketSearch,
                      link   |-> LINK_CONNECTOR_CONFIG_DEFAULT]]

\* Client.__init__: the fields it sets once, from the connector
\* configurations of setup 'cfg'
Fixed(cfg) ==
    Let(ConnectorSetups[cfg], LAMBDA given :
    [baseurl         |-> "http://otrs.example.com",
     webservice_path |-> "/otrs/nph-genericinterface.pl/Webservice/",
     ws_ticket       |-> TICKET_CONNECTOR_CONFIG_DEFAULT.Name,
     ws_faq          |-> FAQ_CONNECTOR_CONFIG_DEFAULT.Name,
     ws_link         |-> LINK_CONNECTOR_CONFIG_DEFAULT.Name,
     routes_ticket   |-> RoutesOf(given.ticket.Config),
     routes_faq      |-> RoutesOf(given.faq.Config),
     routes_link     |-> RoutesOf(given.link.Config),
     ws_config       |-> DictUpdate(DictUpdate(given.ticket.Config, given.faq.Config),
                                    given.link.Config),
     username        |-> PyStr(<<"user">>),
     password        |-> PyStr(<<"secret">>),
     session_validation_ticket_id |-> PyInt(1)])

\* Client.__init__: the fields that change later ("dummy initialization");
\* self._url, self._result_type and self._result_error are not set yet
ClientInit(cfg) ==
    [cfg          |-> cfg,
     operation    |-> "None",
     result_json  |-> PyNone,
     result       |-> PyList(<<>>),
     result_type  |-> "None",
     result_error |-> FALSE,
     url          |-> <<>>]

-----------------------------------------------------------------------------
(* Client._build_url and Client._send_request *)

\* "{0}".format(x)
Format(v) == IF v.t = "int" THEN IntToStr(v.n) ELSE IF v.t = "str" THEN v.s ELSE <<"None">>

HasColon(route) == \E i \in 1..Len(route) : route[i] = ":"
FirstColon(route) == CHOOSE i \in 1..Len(route) :
                        route[i] = ":" /\ \A k \in 1..(i - 1) : route[k] # ":"
\* route.split(":")[0] and route.split(":")[1]
SplitHead(route) == SubSeq(route, 1, FirstColon(route) - 1)
SplitSecond(route) ==
    LET rest == SubSeq(route, FirstColon(route) + 1, Len(route)) IN
    IF HasColon(rest) THEN SplitHead(rest) ELSE rest

\* Client._build_url: the URL returned, or the exception, and the client
\* with self._url assigned where the code assigns it
build_url(cl, ticket_id) ==
    Let(Fixed(cl.cfg), LAMBDA fx :
    LET route == fx.ws_config[cl.operation].Route
        prefix == <<fx.baseurl, fx.webservice_path>>
        assigned ==
            IF HasColon(route)
            THEN IF SplitSecond(route) = <<"TicketID">>
                 THEN prefix \o <<fx.ws_ticket>> \o SplitHead(route) \o Format(ticket_id)
                 ELSE cl.url
            ELSE IF route \in fx.routes_ticket THEN prefix \o <<fx.ws_ticket>> \o route
            ELSE IF route \in fx.routes_faq THEN prefix \o <<fx.ws_faq>> \o route
            ELSE IF route \in fx.routes_link THEN prefix \o <<fx.ws_link>> \o route
            ELSE cl.url
    IN
    IF HasColon(route) /\ SplitSecond(route) = <<"TicketID">> /\ ~Truthy(ticket_id)
    THEN [exc |-> "ValueError", cl |-> cl]
    ELSE IF assigned = <<>>
    THEN [exc |-> "AttributeError", cl |-> cl]       \* self._url was never set
    ELSE [exc |-> "none", cl |-> [cl EXCEPT !.url = assigned]])

HttpOk == 200

\* a request that went out, and how the exchange ended for the caller
RequestEvent(cl, method, payload, resp, outcome) ==
    [e |-> "request", operation |-> cl.operation, method |-> method,
     url |-> cl.url, payload |-> payload,
     answer |-> [net |-> resp.net, status |-> resp.status,
                 json |-> resp.body.t # "notjson"],
     outcome |-> outcome]

\* send_request handing every answered request to the interpreter, whatever
\* the status
send_request_any_status(cl, payload, ticket_id, resp) ==
    IF DOMAIN payload = {} THEN [exc |-> "ArgumentMissingError", cl |-> cl, ev |-> <<>>]
    ELSE
    Let(Fixed(cl.cfg).ws_config[cl.operation], LAMBDA descriptor :
    Let(build_url([cl EXCEPT !.result_type = descriptor.Result], ticket_id), LAMBDA b :
    IF b.exc # "none" THEN [exc |-> b.exc, cl |-> b.cl, ev |-> <<>>]
    ELSE
    Let(RequestEvent(b.cl, descriptor.RequestMethod, payload, resp,
                     IF resp.net = "ok" THEN "none" ELSE "HTTPError"), LAMBDA req :
    IF resp.net # "ok" THEN [exc |-> "HTTPError", cl |-> b.cl, ev |-> <<req>>]
    ELSE [exc |-> "none", cl |-> b.cl, ev |-> <<req>>])))

\* Client._send_request against a remote that answers 'resp': the exception
\* or "none", the client afterwards, and the request if one went out
send_request(cl, payload, ticket_id, resp) ==
    IF DOMAIN payload = {} THEN [exc |-> "ArgumentMissingError", cl |-> cl, ev |-> <<>>]
    ELSE
    Let(Fixed(cl.cfg).ws_config[cl.operation], LAMBDA descriptor :
    Let(build_url([cl EXCEPT !.result_type = descriptor.Result], ticket_id), LAMBDA b :
    IF b.exc # "none" THEN [exc |-> b.exc, cl |-> b.cl, ev |-> <<>>]
    ELSE IF descriptor.RequestMethod \notin {"DELETE", "GET", "HEAD", "PATCH", "POST", "PUT"}
    THEN [exc |-> "ValueError", cl |-> b.cl, ev |-> <<>>]
    ELSE
    Let(RequestEvent(b.cl, descriptor.RequestMethod, payload, resp,
                     IF resp.net = "ok" /\ resp.status = HttpOk THEN "none"
                     ELSE "HTTPError"), LAMBDA req :
    IF resp.net # "ok" THEN [exc |-> "HTTPError", cl |-> b.cl, ev |-> <<req>>]
    ELSE IF ~(resp.status = HttpOk) THEN [exc |-> "HTTPError", cl |-> b.cl, ev |-> <<req>>]
    ELSE [exc |-> "none", cl |-> b.cl, ev |-> <<req>>])))

-----------------------------------------------------------------------------
(* Client._parse_and_validate_response *)

\* dict.get(key, None)
Get(j, key) == IF key \in DOMAIN j.d THEN j.d[key] ELSE PyNone

\* "x in <str>" is a substring test: the names that are substrings of the
\* operation name tested against and could be an operation of a registry
SubstringsOf(name) ==
    IF name = "LinkList" THEN {"LinkList", "Link", "List"}
    ELSE IF name = "PublicFAQSearch" THEN {"PublicFAQSearch", "Search", "Public"}
    ELSE {name}

\* x == 1 in Python
EqualsOne(v) == v = PyInt(1) \/ v = PyBool(TRUE)

\* Ticket(item)
Ticket(item) == [t |-> "Ticket", fields |-> item]

Parsed(exc, ret, info, cl) == [exc |-> exc, ret |-> ret, info |-> info, cl |-> cl]

\* parse_generic looking at the Error object before the result key
parse_generic_error_first(cl, j) ==
    IF Truthy(Get(j, "Error"))
    THEN Parsed("APIError", PyNone,
                [ErrorCode |-> j.d["Error"].d["ErrorCode"],
                 ErrorMessage |-> j.d["Error"].d["ErrorMessage"]],
                [cl EXCEPT !.result_error = TRUE])
    ELSE IF Truthy(Get(j, cl.result_type))
    THEN Parsed("none", PyBool(TRUE), PyNone, [cl EXCEPT !.result = j.d[cl.result_type]])
    ELSE Parsed("ResponseParseError", PyNone, PyNone, [cl EXCEPT !.result_error = TRUE])

\* the tail of _parse_and_validate_response, "now handle other operations"
parse_generic(cl, j) ==
    LET rt == cl.result_type IN
    IF Truthy(Get(j, rt))
    THEN LET cl1 == [cl EXCEPT !.result_error = FALSE, !.result = j.d[rt]] IN
         IF cl.operation \in {"TicketGet", "TicketGetList"}
         THEN IF "Ticket" \notin DOMAIN j.d THEN Parsed("KeyError", PyNone, PyNone, cl1)
              ELSE IF j.d["Ticket"].t # "list" THEN Parsed("TypeError", PyNone, PyNone, cl1)
              ELSE Parsed("none", PyBool(TRUE), PyNone,
                          [cl1 EXCEPT !.result =
                              PyList([i \in 1..Len(j.d["Ticket"].l) |->
                                         Ticket(j.d["Ticket"].l[i])])])
         ELSE Parsed("none", PyBool(TRUE), PyNone, cl1)
    ELSE IF Truthy(Get(j, "Error"))
    THEN LET cl1 == [cl EXCEPT !.result_error = TRUE]
             err == j.d["Error"] IN
         IF err.t # "dict" THEN Parsed("TypeError", PyNone, PyNone, cl1)
         ELSE IF ~({"ErrorCode", "ErrorMessage"} \subseteq DOMAIN err.d)
         THEN Parsed("KeyError", PyNone, PyNone, cl1)
         ELSE Parsed("APIError", PyNone,
                     [ErrorCode |-> err.d["ErrorCode"], ErrorMessage |-> err.d["ErrorMessage"]],
                     cl1)
    ELSE Parsed("ResponseParseError", PyNone, PyNone, [cl EXCEPT !.result_error = TRUE])

\* parse_public_faq_search taking every error code for "no FAQ data"
parse_public_faq_search_any_code(cl, j) ==
    LET found == Get(j, cl.result_type) IN
    IF ~Truthy(found)
    THEN IF "Error" \notin DOMAIN j.d THEN Parsed("KeyError", PyNone, PyNone, cl)
         ELSE Parsed("none", PyBool(TRUE), PyNone, [cl EXCEPT !.result = PyList(<<>>)])
    ELSE Parsed("none", PyBool(TRUE), PyNone, [cl EXCEPT !.result = found])

\* the PublicFAQSearch case: "PublicFAQSearch result can be empty"
parse_public_faq_search(cl, j) ==
    LET found == Get(j, cl.result_type) IN
    IF ~Truthy(found)
    THEN IF "Error" \notin DOMAIN j.d THEN Parsed("KeyError", PyNone, PyNone, cl)
         ELSE IF j.d["Error"].t # "dict" THEN Parsed("TypeError", PyNone, PyNone, cl)
         ELSE IF "ErrorCode" \notin DOMAIN j.d["Error"].d
         THEN Parsed("KeyError", PyNone, PyNone, cl)
         ELSE IF j.d["Error"].d["ErrorCode"] = PyStr(<<"PublicFAQSearch.NotFAQData">>)
         THEN Parsed("none", PyBool(TRUE), PyNone, [cl EXCEPT !.result = PyList(<<>>)])
         ELSE parse_generic(cl, j)
    ELSE Parsed("none", PyBool(TRUE), PyNone, [cl EXCEPT !.result = found])

\* the LinkList case: "LinkList result can be empty"
parse_link_list(cl, j) ==
    LET link_list == Get(j, "LinkList") IN
    IF ~Truthy(link_list)
    THEN Parsed("none", PyBool(TRUE), PyNone, [cl EXCEPT !.result = PyNone])
    ELSE Parsed("none", PyBool(TRUE), PyNone, [cl EXCEPT !.result = link_list])

\* Client._parse_and_validate_response of a status-200 response
parse_and_validate_response(cl, resp) ==
    IF cl.operation \notin DOMAIN Fixed(cl.cfg).ws_config THEN Parsed("ValueError", PyNone, PyNone, cl)
    ELSE
    LET cl0 == [cl EXCEPT !.result = PyNone, !.result_error = FALSE] IN
    IF resp.body.t = "notjson" THEN Parsed("ValueError", PyNone, PyNone, cl0)
    ELSE
    LET j == resp.body
        cl1 == [cl0 EXCEPT !.result_json = j]
    IN
    IF cl1.operation = "TicketSearch" /\ ~Truthy(j)
    THEN Parsed("none", PyBool(TRUE), PyNone, [cl1 EXCEPT !.result = PyList(<<>>)])
    ELSE IF j.t # "dict" THEN Parsed("AttributeError", PyNone, PyNone, cl1)
    ELSE IF cl1.operation = "TicketSearch" /\ Truthy(Get(j, cl1.result_type))
    THEN IF "TicketID" \in DOMAIN j.d
         THEN Parsed("none", PyBool(TRUE), PyNone, [cl1 EXCEPT !.result = j.d["TicketID"]])
         ELSE Parsed("KeyError", PyNone, PyNone, cl1)
    ELSE IF cl1.operation \in {"LinkAdd", "LinkDelete", "LinkDeleteAll"}
            /\ EqualsOne(Get(j, "Success"))
    THEN Parsed("none", PyBool(TRUE), PyNone, cl1)
    ELSE IF cl1.operation \in SubstringsOf("LinkList") THEN parse_link_list(cl1, j)
    ELSE IF cl1.operation \in SubstringsOf("PublicFAQSearch")
    THEN parse_public_faq_search(cl1, j)
    ELSE parse_generic(cl1, j)

-----------------------------------------------------------------------------
(* What the remote may answer *)

Absent == [t |-> "absent"]

\* a dict of the keys whose value is not Absent
DictOf(pairs) ==
    PyDict([key \in {q \in DOMAIN pairs : pairs[q] # Absent} |-> pairs[key]])

ErrorObject(code) ==
    PyDict([ErrorCode |-> PyStr(<<code>>), ErrorMessage |-> PyStr(<<"message of ", code>>)])

ATicket == PyDict([TicketID |-> PyStr(<<"1">>)])

\* values the remote may send under an operation's result key
ResultValues(op) ==
    CASE op = "SessionCreate" -> {PyStr(tok) : tok \in Tokens} \cup {PyStr(<<>>)}
      [] op = "TicketSearch" ->
            {PyList(<<>>), PyList(<<PyStr(<<"1">>)>>),
             PyList(<<PyStr(<<"1">>), PyStr(<<"2">>)>>)}
      [] op \in {"TicketGet", "TicketGetList"} -> {PyList(<<>>), PyList(<<ATicket>>)}
      [] op = "PublicFAQSearch" ->
            {PyList(<<>>), PyStr(<<>>), PyStr(<<"7">>), PyStr(<<"1", "2">>),
             PyList(<<PyStr(<<"7">>)>>), PyList(<<PyStr(<<"7">>), PyStr(<<"8">>)>>)}
      [] op = "LinkList" -> {PyList(<<>>), PyList(<<PyDict([Key |-> PyStr(<<"2">>)])>>)}
      [] OTHER -> {PyStr(<<>>), PyStr(<<"1">>)}

\* Error objects the remote may send
ErrorValues(op) ==
    IF op = "PublicFAQSearch"
    THEN {Absent, ErrorObject("PublicFAQSearch.NotFAQData"),
          ErrorObject("PublicFAQSearch.AccessDenied")}
    ELSE {Absent, ErrorObject("TicketGet.AccessDenied")}

SuccessValues(op) ==
    IF op \in {"LinkAdd", "LinkDelete", "LinkDeleteAll"}
    THEN {Absent, PyInt(0), PyInt(1)}
    ELSE {Absent}

\* JSON bodies of a status-200 answer to operation op of client cl
Bodies(cl, op) ==
    { [t |-> "notjson"], PyList(<<>>) } \cup
    Let(Fixed(cl.cfg).ws_config[op].Result, LAMBDA key :
    { DictOf((key :> r) @@ ("Error" :> e) @@ ("Success" :> s)) :
        r \in ResultValues(op) \cup {Absent}, e \in ErrorValues(op), s \in SuccessValues(op) })

NoBody == [t |-> "notjson"]

\* every answer: no answer at all, a non-200 status, or 200 with a body
Responses(cl, op) ==
    { [net |-> "fail", status |-> 0, body |-> NoBody],
      [net |-> "ok", status |-> 500, body |-> NoBody],
      [net |-> "ok", status |-> 401,
       body |-> DictOf("Error" :> ErrorObject("TicketGet.AccessDenied"))] }
    \cup { [net |-> "ok", status |-> HttpOk, body |-> b] : b \in Bodies(cl, op) }

-----------------------------------------------------------------------------
(* The public methods of Client, against a remote that answers resp *)

\* the result of running a method: outcome, client and store afterwards,
\* and the requests that went out
Result(exc, ret, info, cl, st, ev) ==
    [exc |-> exc, ret |-> ret, info |-> info, cl |-> cl, st |-> st, ev |-> ev]

Raise(exc, cl, st) == Result(exc, PyNone, PyNone, cl, st, <<>>)

\* an argument value of no further interest
Some == PyStr(<<"arg">>)

\* a payload key that is set only under a condition
Optional(cond, key, value) == IF cond THEN key :> value ELSE <<>>

\* request sending the request a second time after an HTTPError
request_with_retry(cl, st, payload, ticket_id, resp) ==
    Let(send_request(cl, payload, ticket_id, resp), LAMBDA s :
    IF s.exc = "HTTPError" THEN Result(s.exc, PyNone, PyNone, s.cl, st, s.ev \o s.ev)
    ELSE IF s.exc # "none" THEN Result(s.exc, PyNone, PyNone, s.cl, st, s.ev)
    ELSE Let(parse_and_validate_response(s.cl, resp), LAMBDA q :
         Result(q.exc, q.ret, q.info, q.cl, st, <<[s.ev[1] EXCEPT !.outcome = q.exc]>>)))

\* request forgetting the token in memory when the remote reports an error
request_drops_token(cl, st, payload, ticket_id, resp) ==
    Let(send_request(cl, payload, ticket_id, resp), LAMBDA s :
    IF s.exc # "none" THEN Result(s.exc, PyNone, PyNone, s.cl, st, s.ev)
    ELSE Let(parse_and_validate_response(s.cl, resp), LAMBDA q :
         Result(q.exc, q.ret, q.info, q.cl,
                IF q.exc = "APIError" THEN [st EXCEPT !.value = PyNone] ELSE st,
                <<[s.ev[1] EXCEPT !.outcome = q.exc]>>)))

\* self._parse_and_validate_response(self._send_request(payload, ticket_id))
request(cl, st, payload, ticket_id, resp) ==
    Let(send_request(cl, payload, ticket_id, resp), LAMBDA s :
    IF s.exc # "none" THEN Result(s.exc, PyNone, PyNone, s.cl, st, s.ev)
    ELSE Let(parse_and_validate_response(s.cl, resp), LAMBDA q :
         Result(q.exc, q.ret, q.info, q.cl, st, <<[s.ev[1] EXCEPT !.outcome = q.exc]>>)))

\* "if not <request>: return False; else: return <value>"
ReturnIfOk(r, value) ==
    IF r.exc # "none" THEN r
    ELSE IF ~Truthy(r.ret) THEN [r EXCEPT !.ret = PyBool(FALSE)]
    ELSE [r EXCEPT !.ret = value]

session_check_is_valid(cl, st, session_id, resp) ==
    LET cl1 == [cl EXCEPT !.operation = "TicketGet"] IN
    IF ~Truthy(session_id) THEN Raise("ArgumentMissingError", cl1, st)
    ELSE request(cl1, st, [SessionID |-> session_id], Fixed(cl1.cfg).session_validation_ticket_id, resp)

session_create(cl, st, resp) ==
    Let(request([cl EXCEPT !.operation = "SessionCreate"], st,
                [UserLogin |-> Fixed(cl.cfg).username, Password |-> Fixed(cl.cfg).password],
                PyNone, resp), LAMBDA r :
    IF r.exc # "none" THEN r
    ELSE IF ~Truthy(r.ret) THEN [r EXCEPT !.ret = PyBool(FALSE)]
    ELSE IF "SessionID" \notin DOMAIN r.cl.result_json.d THEN [r EXCEPT !.exc = "KeyError"]
    ELSE [r EXCEPT !.st = [st EXCEPT !.value = r.cl.result_json.d["SessionID"]],
                   !.ret = PyBool(TRUE)])

ticket_create(cl, st, a, resp) ==
    IF ~Truthy(st.value) THEN Raise("SessionNotCreated", cl, st)
    ELSE IF ~a.ticket THEN Raise("ArgumentMissingError", [cl EXCEPT !.operation = "TicketCreate"], st)
    ELSE IF ~a.article THEN Raise("ArgumentMissingError", [cl EXCEPT !.operation = "TicketCreate"], st)
    ELSE Let(request([cl EXCEPT !.operation = "TicketCreate"], st,
                     [SessionID |-> st.value, Ticket |-> Some, Article |-> Some]
                         @@ Optional(a.attachments, "Attachment", Some),
                     PyNone, resp), LAMBDA r :
         ReturnIfOk(r, r.cl.result_json))

\* ticket_get_by_id sending the login instead of the session token
ticket_get_by_id_with_login(cl, st, a, resp) ==
    IF ~Truthy(st.value) THEN Raise("SessionNotCreated", cl, st)
    ELSE
    Let(request([cl EXCEPT !.operation = "TicketGet"], st,
                [SessionID |-> Fixed(cl.cfg).username, TicketID |-> PyStr(Format(a.ticket_id)),
                 AllArticles |-> PyInt(0), Attachments |-> PyInt(0),
                 DynamicFields |-> PyInt(1), HTMLBodyAsAttachment |-> PyInt(0)],
                a.ticket_id, resp), LAMBDA r :
    IF r.exc = "none" /\ Truthy(r.ret) /\ r.cl.result.l = <<>>
    THEN [r EXCEPT !.exc = "IndexError"]
    ELSE ReturnIfOk(r, r.cl.result.l[1]))

ticket_get_by_id(cl, st, a, resp) ==
    IF ~Truthy(st.value) THEN Raise("SessionNotCreated", cl, st)
    ELSE
    Let(request([cl EXCEPT !.operation = "TicketGet"], st,
                [SessionID |-> st.value, TicketID |-> PyStr(Format(a.ticket_id)),
                 AllArticles |-> PyInt(0), Attachments |-> PyInt(0),
                 DynamicFields |-> PyInt(1), HTMLBodyAsAttachment |-> PyInt(0)],
                a.ticket_id, resp), LAMBDA r :
    IF r.exc = "none" /\ Truthy(r.ret) /\ r.cl.result.l = <<>>
    THEN [r EXCEPT !.exc = "IndexError"]
    ELSE ReturnIfOk(r, r.cl.result.l[1]))

\* ticket_get_by_list testing its argument only after the request was sent
ticket_get_by_list_late_check(cl, st, a, resp) ==
    IF ~Truthy(st.value) THEN Raise("SessionNotCreated", cl, st)
    ELSE Let(request([cl EXCEPT !.operation = "TicketGetList"], st,
                     [SessionID |-> st.value, TicketID |-> Some,
                      AllArticles |-> PyInt(0), Attachments |-> PyInt(0),
                      DynamicFields |-> PyInt(1), HTMLBodyAsAttachment |-> PyInt(0)],
                     PyNone, resp), LAMBDA r :
         IF ~a.is_list THEN [r EXCEPT !.exc = "ArgumentInvalidError", !.ret = PyNone]
         ELSE ReturnIfOk(r, r.cl.result))

ticket_get_by_list(cl, st, a, resp) ==
    IF ~Truthy(st.value) THEN Raise("SessionNotCreated", cl, st)
    ELSE IF ~a.is_list
    THEN Raise("ArgumentInvalidError", [cl EXCEPT !.operation = "TicketGetList"], st)
    ELSE Let(request([cl EXCEPT !.operation = "TicketGetList"], st,
                     [SessionID |-> st.value, TicketID |-> Some,
                      AllArticles |-> PyInt(0), Attachments |-> PyInt(0),
                      DynamicFields |-> PyInt(1), HTMLBodyAsAttachment |-> PyInt(0)],
                     PyNone, resp), LAMBDA r :
         ReturnIfOk(r, r.cl.result))

ticket_search(cl, st, a, resp) ==
    IF ~Truthy(st.value) THEN Raise("SessionNotCreated", cl, st)
    ELSE
    Let(request([cl EXCEPT !.operation = "TicketSearch"], st,
                DictUpdate([SessionID |-> st.value], a.kwargs), PyNone, resp), LAMBDA r :
    ReturnIfOk(r, r.cl.result))

ticket_get_by_number(cl, st, a, resp, resp2) ==
    IF a.number_is_int THEN Raise("ArgumentInvalidError", cl, st)
    ELSE
    Let(ticket_search(cl, st, [kwargs |-> [TicketNumber |-> Some]], resp), LAMBDA r :
    IF r.exc # "none" THEN r
    ELSE IF ~Truthy(r.ret) THEN [r EXCEPT !.ret = PyBool(FALSE)]
    ELSE IF Len(r.ret.l) = 1
    THEN Let(ticket_get_by_id(r.cl, r.st, [ticket_id |-> r.ret.l[1]], resp2), LAMBDA g :
         IF g.exc = "none" /\ ~Truthy(g.ret)
         THEN [g EXCEPT !.ev = r.ev \o g.ev, !.ret = PyBool(FALSE)]
         ELSE [g EXCEPT !.ev = r.ev \o g.ev])
    ELSE [r EXCEPT !.exc = "ValueError", !.ret = PyNone])

ticket_search_full_text(cl, st, a, resp) ==
    ticket_search([cl EXCEPT !.operation = "TicketSearch"], st,
                  [kwargs |-> [FullTextIndex |-> PyStr(<<"1">>), ContentSearch |-> PyStr(<<"OR">>),
                               Subject |-> Some, Body |-> Some]],
                  resp)

ticket_update(cl, st, a, resp) ==
    IF ~Truthy(st.value) THEN Raise("SessionNotCreated", cl, st)
    ELSE IF a.attachments /\ ~a.article
    THEN Raise("ArgumentMissingError", [cl EXCEPT !.operation = "TicketUpdate"], st)
    ELSE Let(request([cl EXCEPT !.operation = "TicketUpdate"], st,
                     [SessionID |-> st.value, TicketID |-> a.ticket_id]
                         @@ Optional(a.article, "Article", Some)
                         @@ Optional(a.attachments, "Attachment", Some)
                         @@ Optional(a.has_kwargs, "Ticket", Some),
                     a.ticket_id, resp), LAMBDA r :
         IF r.exc = "none" /\ ~Truthy(r.ret) THEN [r EXCEPT !.ret = PyBool(FALSE)]
         ELSE IF r.exc = "none" THEN [r EXCEPT !.ret = r.cl.result_json]
         ELSE r)

ticket_update_set_pending(cl, st, a, resp) ==
    ticket_update(cl, st,
                  [ticket_id |-> a.ticket_id, article |-> FALSE, attachments |-> FALSE,
                   has_kwargs |-> TRUE],
                  resp)

\* "result = <request>; if result: return self.result" (else None)
ResultIfOk(answer) ==
    Let(answer, LAMBDA r :
    IF r.exc # "none" THEN r
    ELSE IF Truthy(r.ret) THEN [r EXCEPT !.ret = r.cl.result]
    ELSE [r EXCEPT !.ret = PyNone])

\* "if <request>: return self.result; else: return False"
ResultOrFalse(answer) ==
    Let(answer, LAMBDA r :
    IF r.exc # "none" THEN r
    ELSE IF Truthy(r.ret) THEN [r EXCEPT !.ret = r.cl.result]
    ELSE [r EXCEPT !.ret = PyBool(FALSE)])

\* SessionCall without its check of the token in memory
SessionCallUnchecked(cl, st, op, payload, resp) ==
    request([cl EXCEPT !.operation = op], st,
            [SessionID |-> st.value] @@ payload, PyNone, resp)

\* SessionCall sending the password along with the session id
SessionCallWithPassword(cl, st, op, payload, resp) ==
    IF ~Truthy(st.value) THEN Raise("SessionNotCreated", cl, st)
    ELSE request([cl EXCEPT !.operation = op], st,
                 [SessionID |-> st.value, Password |-> Fixed(cl.cfg).password] @@ payload,
                 PyNone, resp)

\* the methods that send the session id, and little else, under operation op
SessionCall(cl, st, op, payload, resp) ==
    IF ~Truthy(st.value) THEN Raise("SessionNotCreated", cl, st)
    ELSE request([cl EXCEPT !.operation = op], st,
                 [SessionID |-> st.value] @@ payload, PyNone, resp)

faq_language_list(cl, st, a, resp) ==
    ResultIfOk(SessionCall(cl, st, "LanguageList", <<>>, resp))

faq_category_list(cl, st, a, resp) ==
    ResultIfOk(SessionCall(cl, st, "PublicCategoryList", <<>>, resp))

faq_public_faq_get(cl, st, a, resp) ==
    IF ~Truthy(st.value) THEN Raise("SessionNotCreated", cl, st)
    ELSE IF ~a.item_ids
    THEN Raise("ArgumentMissingError", [cl EXCEPT !.operation = "PublicFAQGet"], st)
    ELSE ResultIfOk(request([cl EXCEPT !.operation = "PublicFAQGet"], st,
                            [SessionID |-> st.value, ItemID |-> Some], PyNone, resp))

\* len(x) of a str or a list
PyLen(v) == IF v.t = "str" THEN Len(v.s) ELSE Len(v.l)

\* the search_dict argument by kind: none, a dict of search fields, a dict
\* of the caller's with the key of the login, or something that is no dict
SearchDictOf(kind) ==
    CASE kind = "dict" -> [Keyword |-> Some]
      [] kind = "login" -> [UserLogin |-> Some]
      [] OTHER -> <<>>

faq_public_faq_search(cl, st, a, resp) ==
    IF ~Truthy(st.value) THEN Raise("SessionNotCreated", cl, st)
    ELSE IF a.search_dict = "other"
    THEN Raise("ArgumentInvalidError", [cl EXCEPT !.operation = "PublicFAQSearch"], st)
    ELSE
    Let(request([cl EXCEPT !.operation = "PublicFAQSearch"], st,
                DictUpdate([SessionID |-> st.value], SearchDictOf(a.search_dict)),
                PyNone, resp), LAMBDA r :
    IF r.exc # "none" THEN r
    ELSE IF ~Truthy(r.ret) THEN [r EXCEPT !.ret = PyNone]
    ELSE IF ~Truthy(r.cl.result) THEN [r EXCEPT !.ret = PyList(<<>>)]
    ELSE IF PyLen(r.cl.result) = 1 THEN [r EXCEPT !.ret = PyList(<<r.cl.result>>)]
    ELSE [r EXCEPT !.ret = r.cl.result])

link_add(cl, st, a, resp) ==
    SessionCall(cl, st, "LinkAdd",
                [SourceObject |-> Some, SourceKey |-> PyInt(1), TargetObject |-> Some,
                 TargetKey |-> PyInt(2), Type |-> Some, State |-> Some],
                resp)

link_delete(cl, st, a, resp) ==
    SessionCall(cl, st, "LinkDelete",
                [Object1 |-> Some, Key1 |-> PyInt(1), Object2 |-> Some,
                 Key2 |-> PyInt(2), Type |-> Some],
                resp)

link_delete_all(cl, st, a, resp) ==
    SessionCall(cl, st, "LinkDeleteAll", [Object |-> Some, Key |-> PyInt(1)], resp)

link_list(cl, st, a, resp) ==
    SessionCall(cl, st, "LinkList",
                [Object |-> Some, Key |-> PyInt(1), State |-> Some], resp)

link_possible_link_list(cl, st, a, resp) ==
    ResultOrFalse(SessionCall(cl, st, "PossibleLinkList", <<>>, resp))

link_possible_objects_list(cl, st, a, resp) ==
    ResultOrFalse(SessionCall(cl, st, "PossibleObjectsList", [Object |-> Some], resp))

link_possible_types_list(cl, st, a, resp) ==
    ResultOrFalse(SessionCall(cl, st, "PossibleTypesList",
                              [Object1 |-> Some, Object2 |-> Some], resp))

-----------------------------------------------------------------------------
(* Calls of the public methods *)

\* a method that runs in one step: the call, its arguments and its result
Apply(name, a, result) ==
    /\ calls < MaxCalls
    /\ calls' = calls + 1
    /\ pc = "idle"
    /\ \E o \in {result} :
        /\ client' = o.cl
        /\ store' = o.st
        /\ events' = o.ev
        /\ last' = Outcome(name, a, o.exc, o.ret, o.info, o.st.value)
    /\ UNCHANGED <<file, now, pc, frame>>

\* the ticket ids a caller passes: none, 0 and a real one
TicketIds == {PyNone, PyInt(0), PyInt(1)}

call_session_check_is_valid ==
    \E sid \in {PyNone, store.value} \cup {PyStr(tok) : tok \in Tokens},
       resp \in Responses(client, "TicketGet") :
        Apply("session_check_is_valid", [session_id |-> sid],
              session_check_is_valid(client, store, sid, resp))

call_session_create ==
    \E resp \in Responses(client, "SessionCreate") :
        Apply("session_create", NoArgs, session_create(client, store, resp))

call_ticket_create ==
    \E tk \in BOOLEAN, ar \in BOOLEAN, at \in BOOLEAN,
       resp \in Responses(client, "TicketCreate") :
        LET a == [ticket |-> tk, article |-> ar, attachments |-> at] IN
        Apply("ticket_create", a, ticket_create(client, store, a, resp))

call_ticket_get_by_id ==
    \E id \in TicketIds, resp \in Responses(client, "TicketGet") :
        LET a == [ticket_id |-> id] IN
        Apply("ticket_get_by_id", a, ticket_get_by_id(client, store, a, resp))

call_ticket_get_by_list ==
    \E il \in BOOLEAN, resp \in Responses(client, "TicketGetList") :
        LET a == [is_list |-> il] IN
        Apply("ticket_get_by_list", a, ticket_get_by_list(client, store, a, resp))

call_ticket_get_by_number ==
    \E ni \in BOOLEAN, resp \in Responses(client, "TicketSearch"),
       resp2 \in Responses(client, "TicketGet") :
        LET a == [number_is_int |-> ni] IN
        Apply("ticket_get_by_number", a,
              ticket_get_by_number(client, store, a, resp, resp2))

\* **kwargs of ticket_search: none, a search field, or a keyword of the
\* caller's that is named like the key of the token
SearchKeywords == {<<>>, [Title |-> Some], [SessionID |-> PyStr(<<"other">>)]}

call_ticket_search ==
    \E kw \in SearchKeywords, resp \in Responses(client, "TicketSearch") :
        LET a == [kwargs |-> kw] IN
        Apply("ticket_search", a, ticket_search(client, store, a, resp))

call_ticket_search_full_text ==
    \E resp \in Responses(client, "TicketSearch") :
        Apply("ticket_search_full_text", NoArgs,
              ticket_search_full_text(client, store, NoArgs, resp))

call_ticket_update ==
    \E id \in TicketIds, ar \in BOOLEAN, at \in BOOLEAN, kw \in BOOLEAN,
       resp \in Responses(client, "TicketUpdate") :
        LET a == [ticket_id |-> id, article |-> ar, attachments |-> at, has_kwargs |-> kw] IN
        Apply("ticket_update", a, ticket_update(client, store, a, resp))

call_ticket_update_set_pending ==
    \E id \in TicketIds, resp \in Responses(client, "TicketUpdate") :
        LET a == [ticket_id |-> id] IN
        Apply("ticket_update_set_pending", a,
              ticket_update_set_pending(client, store, a, resp))

call_faq_language_list ==
    \E resp \in Responses(client, "LanguageList") :
        Apply("faq_language_list", NoArgs, faq_language_list(client, store, NoArgs, resp))

call_faq_category_list ==
    \E resp \in Responses(client, "PublicCategoryList") :
        Apply("faq_category_list", NoArgs, faq_category_list(client, store, NoArgs, resp))

call_faq_public_faq_get ==
    \E ids \in BOOLEAN, resp \in Responses(client, "PublicFAQGet") :
        LET a == [item_ids |-> ids] IN
        Apply("faq_public_faq_get", a, faq_public_faq_get(client, store, a, resp))

call_faq_public_faq_search ==
    \E sd \in {"none", "dict", "login", "other"}, resp \in Responses(client, "PublicFAQSearch") :
        LET a == [search_dict |-> sd] IN
        Apply("faq_public_faq_search", a, faq_public_faq_search(client, store, a, resp))

call_link_add ==
    \E resp \in Responses(client, "LinkAdd") :
        Apply("link_add", NoArgs, link_add(client, store, NoArgs, resp))

call_link_delete ==
    \E resp \in Responses(client, "LinkDelete") :
        Apply("link_delete", NoArgs, link_delete(client, store, NoArgs, resp))

call_link_delete_all ==
    \E resp \in Responses(client, "LinkDeleteAll") :
        Apply("link_delete_all", NoArgs, link_delete_all(client, store, NoArgs, resp))

call_link_list ==
    \E resp \in Responses(client, "LinkList") :
        Apply("link_list", NoArgs, link_list(client, store, NoArgs, resp))

call_link_possible_link_list ==
    \E resp \in Responses(client, "PossibleLinkList") :
        Apply("link_possible_link_list", NoArgs,
              link_possible_link_list(client, store, NoArgs, resp))

call_link_possible_objects_list ==
    \E resp \in Responses(client, "PossibleObjectsList") :
        Apply("link_possible_objects_list", NoArgs,
              link_possible_objects_list(client, store, NoArgs, resp))

call_link_possible_types_list ==
    \E resp \in Responses(client, "PossibleTypesList") :
        Apply("link_possible_types_list", NoArgs,
              link_possible_types_list(client, store, NoArgs, resp))

\* the ticket, FAQ and link operations
OperationMethods ==
    {"ticket_create", "ticket_get_by_id", "ticket_get_by_list", "ticket_get_by_number",
     "ticket_search", "ticket_search_full_text", "ticket_update",
     "ticket_update_set_pending", "faq_language_list", "faq_category_list",
     "faq_public_faq_get", "faq_public_faq_search", "link_add", "link_delete",
     "link_delete_all", "link_list", "link_possible_link_list",
     "link_possible_objects_list", "link_possible_types_list"}

-----------------------------------------------------------------------------
(* Client.session_restore_or_set_up_new, statement by statement *)

RestoreFrame(warg, wret) ==
    [call |-> "session_restore_or_set_up_new", args |-> NoArgs, warg |-> warg, wret |-> wret]

\* restore_read going on to session_create without write("") first
restore_read_no_clear ==
    /\ calls < MaxCalls
    /\ calls' = calls + 1
    /\ pc = "idle"
    /\ events' = <<>>
    /\ LET r == read(file, store, now) IN
        IF r.exc # "none"
        THEN /\ store' = r.store
             /\ last' = Outcome("session_restore_or_set_up_new", NoArgs, r.exc, PyNone,
                                PyNone, r.store.value)
             /\ UNCHANGED <<pc, frame>>
        ELSE /\ store' = [r.store EXCEPT !.value = r.ret]
             /\ IF Truthy(r.ret)
                THEN pc' = "r_probe" /\ frame' = RestoreFrame(PyNone, "none")
                ELSE pc' = "r_create" /\ frame' = RestoreFrame(PyStr(<<>>), "r_create")
             /\ UNCHANGED last
    /\ UNCHANGED <<file, now, client>>

\* self.session_id_store.value = self.session_id_store.read(); without a
\* token the next statement is self.session_id_store.write("")
restore_read ==
    /\ calls < MaxCalls
    /\ calls' = calls + 1
    /\ pc = "idle"
    /\ events' = <<>>
    /\ LET r == read(file, store, now) IN
        IF r.exc # "none"
        THEN /\ store' = r.store
             /\ last' = Outcome("session_restore_or_set_up_new", NoArgs, r.exc, PyNone,
                                PyNone, r.store.value)
             /\ UNCHANGED <<pc, frame>>
        ELSE /\ store' = [r.store EXCEPT !.value = r.ret]
             /\ IF Truthy(r.ret)
                THEN pc' = "r_probe" /\ frame' = RestoreFrame(PyNone, "none")
                ELSE pc' = "w_check" /\ frame' = RestoreFrame(PyStr(<<>>), "r_create")
             /\ UNCHANGED last
    /\ UNCHANGED <<file, now, client>>

\* restore_probe letting the APIError of the probe reach the caller
restore_probe_propagates ==
    /\ UNCHANGED calls
    /\ pc = "r_probe"
    /\ UNCHANGED <<file, now, store>>
    /\ \E resp \in Responses(client, "TicketGet") :
        \E o \in {session_check_is_valid(client, store, store.value, resp)} :
        /\ client' = o.cl
        /\ events' = events \o o.ev
        /\ IF o.exc = "none" /\ Truthy(o.ret) THEN Finish("none", PyBool(TRUE))
           ELSE IF o.exc = "none"
           THEN pc' = "w_check" /\ frame' = RestoreFrame(PyStr(<<>>), "r_create")
                /\ UNCHANGED last
           ELSE Finish(o.exc, PyNone)

\* restore_probe creating a session although the cached token is valid
restore_probe_creates_anyway ==
    /\ UNCHANGED calls
    /\ pc = "r_probe"
    /\ UNCHANGED <<file, now, store>>
    /\ \E resp \in Responses(client, "TicketGet") :
        \E o \in {session_check_is_valid(client, store, store.value, resp)} :
        /\ client' = o.cl
        /\ events' = events \o o.ev
        /\ IF o.exc = "none" /\ Truthy(o.ret)
           THEN pc' = "r_create" /\ UNCHANGED <<frame, last>>
           ELSE IF o.exc \in {"none", "APIError"}
           THEN pc' = "w_check" /\ frame' = RestoreFrame(PyStr(<<>>), "r_create")
                /\ UNCHANGED last
           ELSE Finish(o.exc, PyNone)

\* restore_probe passing over every failure of the probe, not APIError alone
restore_probe_passes_all ==
    /\ UNCHANGED calls
    /\ pc = "r_probe"
    /\ UNCHANGED <<file, now, store>>
    /\ \E resp \in Responses(client, "TicketGet") :
        \E o \in {session_check_is_valid(client, store, store.value, resp)} :
        /\ client' = o.cl
        /\ events' = events \o o.ev
        /\ IF o.exc = "none" /\ Truthy(o.ret) THEN Finish("none", PyBool(TRUE))
           ELSE pc' = "w_check" /\ frame' = RestoreFrame(PyStr(<<>>), "r_create")
                /\ UNCHANGED last

\* the probe: session_check_is_valid(self.session_id_store.value); an
\* APIError is passed over and the store is cleared with write("")
restore_probe ==
    /\ UNCHANGED calls
    /\ pc = "r_probe"
    /\ UNCHANGED <<file, now, store>>
    /\ \E resp \in Responses(client, "TicketGet") :
        \E o \in {session_check_is_valid(client, store, store.value, resp)} :
        /\ client' = o.cl
        /\ events' = events \o o.ev
        /\ IF o.exc = "none" /\ Truthy(o.ret) THEN Finish("none", PyBool(TRUE))
           ELSE IF o.exc \in {"none", "APIError"}
           THEN pc' = "w_check" /\ frame' = RestoreFrame(PyStr(<<>>), "r_create")
                /\ UNCHANGED last
           ELSE Finish(o.exc, PyNone)

\* restore_create that does not save the new token: the cleared record stays
restore_create_unsaved ==
    /\ UNCHANGED calls
    /\ pc = "r_create"
    /\ \E resp \in Responses(client, "SessionCreate") :
        \E o \in {session_create(client, store, resp)} :
        /\ client' = o.cl
        /\ store' = o.st
        /\ events' = events \o o.ev
        /\ IF o.exc # "none" THEN Finish(o.exc, PyNone)
           ELSE IF ~Truthy(o.ret) THEN Finish("SessionCreateError", PyNone)
           ELSE Finish("none", PyBool(TRUE))
    /\ UNCHANGED <<file, now>>

\* if not self.session_create(): raise SessionCreateError; then
\* self.session_id_store.write(self.result_json['SessionID'])
restore_create ==
    /\ UNCHANGED calls
    /\ pc = "r_create"
    /\ \E resp \in Responses(client, "SessionCreate") :
        \E o \in {session_create(client, store, resp)} :
        /\ client' = o.cl
        /\ store' = o.st
        /\ events' = events \o o.ev
        /\ IF o.exc # "none" THEN Finish(o.exc, PyNone)
           ELSE IF ~Truthy(o.ret) THEN Finish("SessionCreateError", PyNone)
           ELSE pc' = "w_check"
                /\ frame' = RestoreFrame(o.cl.result_json.d["SessionID"], "return")
                /\ UNCHANGED last
    /\ UNCHANGED <<file, now>>

-----------------------------------------------------------------------------
(* The client with its credential file *)

ARecord(owner, mode) ==
    [exists |-> TRUE, owner |-> owner, mode |-> mode,
     content |-> [k |-> "object", m |-> [created |-> [j |-> "string", e |-> <<"0">>],
                                         session_id |-> JsonDumps(PyStr(<<"abc123">>))]]]

\* what the file may be when the client starts, or be turned into by
\* another actor between two calls
ClientFiles ==
    { NoFile,
      ARecord(SelfUid, OwnerReadWrite),
      ARecord(OtherUid, OwnerReadWrite),
      ARecord(SelfUid, 420),
      [ARecord(SelfUid, OwnerReadWrite) EXCEPT !.content = [k |-> "garbage"]],
      [ARecord(SelfUid, OwnerReadWrite) EXCEPT
           !.content = [k |-> "scalar", v |-> [j |-> "array"]]] }

TamperClient == Tamper(ClientFiles)

Init ==
    /\ file \in ClientFiles
    /\ now = 0
    /\ store \in {NewStore(t) : t \in 1..MaxTimeout}
    /\ client = ClientInit("default")
    /\ pc = "idle"
    /\ frame = IdleFrame
    /\ events = <<>>
    /\ last = Outcome("none", NoArgs, "none", PyNone, PyNone, PyNone)
    /\ calls = 0

\* the session's life: restoring or creating it, probing it, using it for
\* a ticket, while time passes and other actors touch the file
Next ==
    \/ restore_read
    \/ restore_probe
    \/ restore_create
    \/ write_check
    \/ write_open
    \/ write_chmod
    \/ write_validate
    \/ call_session_create
    \/ call_ticket_get_by_id
    \/ TamperClient
    \/ Tick

Spec == Init /\ [][Next]_vars

-----------------------------------------------------------------------------
(* The operations of a client, with or without a session in memory *)

NextOps ==
    \/ call_session_check_is_valid
    \/ call_session_create
    \/ call_ticket_create
    \/ call_ticket_get_by_id
    \/ call_ticket_get_by_list
    \/ call_ticket_get_by_number
    \/ call_ticket_search
    \/ call_ticket_search_full_text
    \/ call_ticket_update
    \/ call_ticket_update_set_pending
    \/ call_faq_language_list
    \/ call_faq_category_list
    \/ call_faq_public_faq_get
    \/ call_faq_public_faq_search
    \/ call_link_add
    \/ call_link_delete
    \/ call_link_delete_all
    \/ call_link_list
    \/ call_link_possible_link_list
    \/ call_link_possible_objects_list
    \/ call_link_possible_types_list

\* the credential file plays no part in these calls
InitOps == Init /\ file = NoFile

SpecOps == InitOps /\ [][NextOps]_vars

-----------------------------------------------------------------------------
(* Clients constructed with connector configurations of the caller's own *)

\* a client of any of the setups, no credential file: Client.__init__
\* merges the three tables as they are given and refuses none
InitSetup ==
    /\ file = NoFile
    /\ now = 0
    /\ store \in {NewStore(t) : t \in 1..MaxTimeout}
    /\ client \in {ClientInit(cfg) : cfg \in DOMAIN ConnectorSetups}
    /\ pc = "idle"
    /\ frame = IdleFrame
    /\ events = <<>>
    /\ last = Outcome("none", NoArgs, "none", PyNone, PyNone, PyNone)
    /\ calls = 0

\* calls on operations of each of the three connectors
NextSetup ==
    \/ call_session_create
    \/ call_ticket_get_by_id
    \/ call_ticket_search
    \/ call_ticket_update_set_pending
    \/ call_faq_language_list
    \/ call_link_list

SpecSetup == InitSetup /\ [][NextSetup]_vars

-----------------------------------------------------------------------------
(* The SessionStore on its own *)

\* any file, any store timeout up to MaxTimeout
InitStore ==
    /\ file \in ForeignFiles
    /\ now = 0
    /\ store \in {NewStore(t) : t \in 1..MaxTimeout}
    /\ client = ClientInit("default")
    /\ pc = "idle"
    /\ frame = IdleFrame
    /\ events = <<>>
    /\ last = Outcome("none", NoArgs, "none", PyNone, PyNone, PyNone)
    /\ calls = 0

NextStore ==
    \/ store_read
    \/ store_write
    \/ store_delete
    \/ write_check
    \/ write_open
    \/ write_chmod
    \/ write_validate
    \/ TamperAny
    \/ Tick

SpecStore == InitStore /\ [][NextStore]_vars

-----------------------------------------------------------------------------
(* Claims about the SessionStore (checked under SpecStore) *)

\* the file passes the trust check and holds a record with both keys and a
\* 'created' that int() accepts
WellFormedTrusted(f) ==
    /\ f.exists
    /\ validate_file_owner_and_permissions(f)
    /\ f.content.k = "object"
    /\ {"created", "session_id"} \subseteq DOMAIN f.content.m
    /\ IntOf(JsonLoads(f.content.m["created"])).exc = "none"

CreatedOf(f) == IntOf(JsonLoads(f.content.m["created"])).n
TokenOf(f) == JsonLoads(f.content.m["session_id"])

\* C5: every read() of a trusted, well-formed record returns the stored
\* token if created + timeout (the configured number of seconds) is later
\* than the current time, and returns None if it is equal or earlier.
C5_ReadExpiresAfterTimeoutSeconds ==
    [][ (store_read /\ WellFormedTrusted(file)) =>
          /\ last'.exc = "none"
          /\ IF (CreatedOf(file) + store.timeout) * TicksPerSec > now
             THEN last'.ret = TokenOf(file)
             ELSE last'.ret = PyNone ]_vars

\* C6: on an existing file that is not owned by the process user, or whose
\* lower nine mode bits are not 0600, read() returns None, and write()
\* raises IOError and leaves the file, content and mode, as it was.
C6_UntrustedFileRefused ==
    [][ (file.exists /\ ~(file.owner = SelfUid /\ file.mode % PermissionBits = OwnerReadWrite)) =>
          /\ store_read => (last'.exc = "none" /\ last'.ret = PyNone /\ file' = file)
          /\ write_check => (pc' = "idle" /\ last'.exc = "IOError" /\ file' = file) ]_vars

\* C6 witness: a write() has just been refused on a file of another owner
\* whose text is still in place
C6_Witness ==
    /\ pc = "idle"
    /\ last.call = "write"
    /\ last.exc = "IOError"
    /\ file.exists
    /\ file.owner = OtherUid
    /\ file.mode = OwnerReadWrite
    /\ file.content.k = "object"

\* the record in the file is not yet expired: created + timeout is later
\* than now, with the timeout as long as the store takes it to be
NotElapsed(f, st, clock) ==
    (CreatedOf(f) + SecondsPerMinute * st.timeout) * TicksPerSec > clock

\* C7: after a write(t) that returned True, with nobody else touching the
\* file and the timeout not elapsed, read() returns exactly t.
C7_WriteReadRoundTrip ==
    (pc = "idle" /\ last.call = "write" /\ last.exc = "none"
        /\ NotElapsed(file, store, now)) =>
    LET r == read(file, store, now) IN
        r.exc = "none" /\ r.ret = last.args.new_value

\* C7 witness: a token with a quote and a backslash was written, time has
\* passed, and the record is still within its timeout
C7_Witness ==
    /\ pc = "idle"
    /\ last.call = "write"
    /\ last.exc = "none"
    /\ last.args.new_value = PyStr(<<"x", "\"", "\\", "y">>)
    /\ now > 0
    /\ NotElapsed(file, store, now)
    /\ read(file, store, now).ret = PyStr(<<"x", "\"", "\\", "y">>)

\* C8: read() never raises on a trusted file, and returns None for every
\* text that is not a well-formed, unexpired record.
C8_ReadNeverRaises ==
    [][ (store_read /\ file.exists /\ validate_file_owner_and_permissions(file)) =>
          /\ last'.exc = "none"
          /\ (~WellFormedTrusted(file) => last'.ret = PyNone) ]_vars

-----------------------------------------------------------------------------
(* Claims about the operations (checked under SpecOps) *)

\* the last call was a ticket, FAQ or link operation, made while the store
\* held no token in memory (no operation changes the value in memory)
CalledWithoutToken ==
    pc = "idle" /\ last.call \in OperationMethods /\ ~Truthy(store.value)

\* ticket_get_by_number was given the ticket number as an int
NumberGivenAsInt == last.call = "ticket_get_by_number" /\ last.args.number_is_int

\* C1 as stated: every ticket, FAQ and link operation called without a
\* token in memory fails with SessionNotCreated and sends no HTTP request.
C1_NoTokenSessionNotCreated ==
    CalledWithoutToken => (last.exc = "SessionNotCreated" /\ events = <<>>)

\* C1 amended: every ticket, FAQ and link operation called without a token
\* in memory sends no HTTP request and fails with SessionNotCreated, except
\* ticket_get_by_number given an int, which fails with ArgumentInvalidError.
C1_NoTokenNoRequest ==
    CalledWithoutToken =>
        /\ events = <<>>
        /\ last.exc = IF NumberGivenAsInt THEN "ArgumentInvalidError"
                      ELSE "SessionNotCreated"

\* C1 witness: ticket_get_by_number was called with an int and no token
C1_Witness ==
    CalledWithoutToken /\ NumberGivenAsInt /\ last.exc = "ArgumentInvalidError"

\* the last call was 'call' and got a status-200 answer whose body is a
\* JSON object, which the client keeps in result_json
AnsweredWithObject(call) ==
    /\ pc = "idle"
    /\ last.call = call
    /\ Len(events) = 1
    /\ events[1].outcome \notin {"HTTPError", "ValueError"}
    /\ client.result_json.t = "dict"

\* C9: link_list answered without a LinkList field succeeds with a null
\* result if the answer has no Error field, and raises APIError if it has.
C9_LinkListErrorRaises ==
    (AnsweredWithObject("link_list") /\ "LinkList" \notin DOMAIN client.result_json.d) =>
        IF "Error" \in DOMAIN client.result_json.d
        THEN last.exc = "APIError"
        ELSE last.exc = "none" /\ client.result = PyNone

\* the answer kept in result_json has an empty or absent result and an
\* Error object
EmptyWithError ==
    /\ ~Truthy(Get(client.result_json, "ID"))
    /\ "Error" \in DOMAIN client.result_json.d

\* C10: faq_public_faq_search answered with an empty or absent result
\* returns [] if the error code is "PublicFAQSearch.NotFAQData" and raises
\* APIError for every other error code.
C10_PublicFAQSearchNoData ==
    (AnsweredWithObject("faq_public_faq_search") /\ EmptyWithError) =>
        IF client.result_json.d["Error"].d["ErrorCode"] = PyStr(<<"PublicFAQSearch.NotFAQData">>)
        THEN last.exc = "none" /\ last.ret = PyList(<<>>)
        ELSE last.exc = "APIError"

\* C10 witness: a search answered with only the NotFAQData error returned []
C10_Witness ==
    /\ AnsweredWithObject("faq_public_faq_search")
    /\ DOMAIN client.result_json.d = {"Error"}
    /\ client.result_json.d["Error"] = ErrorObject("PublicFAQSearch.NotFAQData")
    /\ last.ret = PyList(<<>>)

-----------------------------------------------------------------------------
(* Claims about session_restore_or_set_up_new (checked under Spec) *)

\* session_restore_or_set_up_new has ended and nothing happened since
Restored == pc = "idle" /\ last.call = "session_restore_or_set_up_new"

\* the running call is session_restore_or_set_up_new and this step ends it
RestoreEnds ==
    pc # "idle" /\ frame.call = "session_restore_or_set_up_new" /\ pc' = "idle"

IsRequest(ev, op) == ev.e = "request" /\ ev.operation = op

\* the token in the record that a write() put into the file
IsWrite(ev) == ev.e = "write"
WrittenToken(ev) == JsonLoads(ev.text.m["session_id"])

\* the call began with the probe of a cached token, which ended with 'exc'
Probed(evs, exc) ==
    evs # <<>> /\ IsRequest(evs[1], "TicketGet") /\ evs[1].outcome = exc

\* C2: when the file yields a token and the probe raises APIError, the
\* call goes on: the record is overwritten with an empty token, after that
\* at most one session-create request is sent, a token is written only after
\* it was issued, and a call that returns has done exactly these steps in
\* this order; no APIError reaches the caller unless session-create raised it.
C2_ProbeRefusedThenCreate ==
    (Restored /\ Probed(events, "APIError")) =>
        LET n == Len(events)
            creates == {i \in 1..n : IsRequest(events[i], "SessionCreate")}
        IN
        /\ n >= 3
        /\ IsWrite(events[2]) /\ WrittenToken(events[2]) = PyStr(<<>>)
        /\ events[3] = ChmodEvent
        /\ Cardinality(creates) <= 1
        /\ \A i \in 4..n : IsWrite(events[i]) =>
              /\ i = 5
              /\ events[4].outcome = "none"
              /\ WrittenToken(events[i]) = client.result_json.d["SessionID"]
        /\ last.exc = "APIError" => (n = 4 /\ events[4].outcome = "APIError")
        /\ last.exc = "none" =>
              /\ n = 6
              /\ creates = {4}
              /\ IsWrite(events[5]) /\ Truthy(WrittenToken(events[5]))
              /\ events[6] = ChmodEvent

\* C2 witness: the probe was refused and the call returned with a new token
\* in the file
C2_Witness ==
    /\ Restored
    /\ Probed(events, "APIError")
    /\ last.exc = "none"
    /\ Len(events) = 6
    /\ TokenOf(file) = store.value
    /\ Truthy(store.value)

\* C3: when the file yields an unexpired token and the probe succeeds, the
\* call returns without a session-create request and without writing the
\* file, the token in memory is the cached one, and a successful restore
\* right before it ended with the same token.
C3_CachedTokenReused ==
    [][ (RestoreEnds /\ Probed(events', "none")) =>
          /\ Len(events') = 1
          /\ last'.exc = "none"
          /\ file' = file
          /\ store'.value = TokenOf(file)
          /\ Truthy(store'.value)
          /\ (last.call = "session_restore_or_set_up_new" /\ last.exc = "none")
                => last'.token = last.token ]_vars

\* C3 witness: the second of two calls restored the cached token
C3_Witness ==
    /\ Restored
    /\ Probed(events, "none")
    /\ Len(events) = 1
    /\ last.exc = "none"
    /\ calls = 2
    /\ last.token = TokenOf(file)

\* the restore that has just returned found no credential file
RestoredFromNothing ==
    /\ Restored
    /\ last.exc = "none"
    /\ IsWrite(events[1])
    /\ ~events[1].existed

\* C4: after a restore that began without a credential file and returned,
\* the file holds the SessionID the remote returned, with mode 0600, and a
\* following ticket_get_by_id sends that SessionID in its payload.
C4_CreatedTokenPersistedAndSent ==
    [][ /\ RestoredFromNothing' =>
            /\ file'.exists
            /\ file'.owner = SelfUid
            /\ file'.mode = OwnerReadWrite
            /\ TokenOf(file') = client'.result_json.d["SessionID"]
            /\ last'.token = TokenOf(file')
        /\ (RestoredFromNothing /\ last'.call = "ticket_get_by_id") =>
            /\ last'.exc # "SessionNotCreated"
            /\ \A i \in 1..Len(events') :
                  events'[i].payload["SessionID"] = last.token ]_vars

\* C4 witness: a restore that found no file has returned, and the file it
\* created holds the token now in memory
C4_Witness ==
    /\ RestoredFromNothing
    /\ WellFormedTrusted(file)
    /\ file.mode = OwnerReadWrite
    /\ Truthy(last.token)
    /\ TokenOf(file) = last.token

-----------------------------------------------------------------------------
(* Claims about the response interpreter (checked under SpecOps) *)

\* the last call was 'call', it sent one request, and the status-200
\* answer was valid JSON, which the client keeps in result_json
Answered(call) ==
    /\ pc = "idle"
    /\ last.call = call
    /\ Len(events) = 1
    /\ events[1].outcome \notin {"HTTPError", "ValueError"}

\* C11: ticket_search answered with an empty body returns []; answered
\* with a body that has the key TicketID it returns that key's value,
\* whatever the value (an empty list included).
C11_SearchResultVerbatim ==
    Answered("ticket_search") =>
        /\ ~Truthy(client.result_json) =>
              (last.exc = "none" /\ last.ret = PyList(<<>>))
        /\ (client.result_json.t = "dict" /\ "TicketID" \in DOMAIN client.result_json.d) =>
              (last.exc = "none" /\ last.ret = client.result_json.d["TicketID"])

\* every public method that sends a request
RequestingMethods == OperationMethods \cup {"session_create", "session_check_is_valid"}

\* the status-200 answer to the last call was a JSON object
AnsweredObject ==
    /\ \E call \in RequestingMethods : Answered(call)
    /\ client.result_json.t = "dict"

\* the operation's special case settled the answer kept in result_json
ResolvedBySpecialCase ==
    LET j == client.result_json
        op == client.operation IN
    \/ op = "TicketSearch" /\ Truthy(Get(j, "TicketID"))
    \/ op = "TicketSearch" /\ ~Truthy(j)
    \/ op \in {"LinkAdd", "LinkDelete", "LinkDeleteAll"} /\ EqualsOne(Get(j, "Success"))
    \/ op = "LinkList"
    \/ op = "PublicFAQSearch" /\ Truthy(Get(j, "ID"))
    \/ op = "PublicFAQSearch" /\ "Error" \notin DOMAIN j.d
    \/ op = "PublicFAQSearch"
           /\ "Error" \in DOMAIN j.d
           /\ j.d["Error"].d["ErrorCode"] = PyStr(<<"PublicFAQSearch.NotFAQData">>)

\* the answer to the last call was left to the generic rule
ReachedGenericRule == AnsweredObject /\ ~ResolvedBySpecialCase

\* the value under the result key, as the interpreter leaves it in
\* self.result: the ticket-fetch operations wrap each item in a Ticket
ResultOf(j, op, key) ==
    IF op \in {"TicketGet", "TicketGetList"}
    THEN PyList([i \in 1..Len(j.d[key].l) |-> Ticket(j.d[key].l[i])])
    ELSE j.d[key]

\* C12: under the generic rule a truthy value under the operation's result
\* key makes the call succeed with that value as the result, whether or not
\* an Error object is present; without it an Error object makes the call
\* raise APIError with the remote's ErrorCode and ErrorMessage.
C12_GenericRule ==
    ReachedGenericRule =>
        LET j == client.result_json
            key == client.result_type IN
        IF Truthy(Get(j, key))
        THEN last.exc = "none" /\ client.result = ResultOf(j, client.operation, key)
        ELSE "Error" \in DOMAIN j.d =>
                /\ last.exc = "APIError"
                /\ last.info = [ErrorCode |-> j.d["Error"].d["ErrorCode"],
                                ErrorMessage |-> j.d["Error"].d["ErrorMessage"]]

\* C12 witness: ticket_create answered with a ticket id and an Error object
\* succeeded
C12_Witness ==
    /\ ReachedGenericRule
    /\ last.call = "ticket_create"
    /\ {"TicketID", "Error"} \subseteq DOMAIN client.result_json.d
    /\ Truthy(client.result_json.d["TicketID"])
    /\ last.exc = "none"
    /\ client.result = client.result_json.d["TicketID"]

\* C12 witness of the error path: a call that raised APIError with the
\* remote's error code
C12_ErrorRaised ==
    /\ ReachedGenericRule
    /\ last.exc = "APIError"
    /\ last.info.ErrorCode = PyStr(<<"TicketGet.AccessDenied">>)

\* C13: link_add, link_delete and link_delete_all succeed exactly when the
\* answer's Success field equals 1; every answer without Success = 1 makes
\* the call raise APIError or ResponseParseError.
C13_LinkMutationSuccessOnly ==
    (AnsweredObject /\ last.call \in {"link_add", "link_delete", "link_delete_all"}) =>
        IF Get(client.result_json, "Success") = PyInt(1)
        THEN last.exc = "none"
        ELSE last.exc \in {"APIError", "ResponseParseError"}

\* a public method that sends requests has ended and sent at least one
Exchanged == pc = "idle" /\ last.call \in RequestingMethods /\ events # <<>>

\* the answer to the last request of the call
LastAnswer == events[Len(events)].answer

\* C14: a call whose request is answered with status 200 and a body that
\* is not valid JSON fails with ResponseParseError, whatever the operation.
C14_InvalidJsonParseError ==
    (Exchanged /\ LastAnswer = [net |-> "ok", status |-> HttpOk, json |-> FALSE]) =>
        last.exc = "ResponseParseError"

\* the answer kept in result_json has neither a truthy value under the
\* operation's result key nor an Error object
UnknownShape ==
    /\ AnsweredObject
    /\ ~Truthy(Get(client.result_json, client.result_type))
    /\ "Error" \notin DOMAIN client.result_json.d

\* the special cases that accept an answer of unknown shape: the empty
\* ticket search, a link mutation with Success = 1, and the link list
AcceptedWithoutResult ==
    \/ client.operation = "TicketSearch" /\ ~Truthy(client.result_json)
    \/ client.operation \in {"LinkAdd", "LinkDelete", "LinkDeleteAll"}
         /\ EqualsOne(Get(client.result_json, "Success"))
    \/ client.operation = "LinkList"

\* C15: an answer with neither a truthy result key nor an Error object
\* raises ResponseParseError for every operation whose special case does not
\* accept it, PublicFAQSearch with an empty or absent result included.
C15_UnknownShapeParseError ==
    (UnknownShape /\ ~AcceptedWithoutResult) => last.exc = "ResponseParseError"

-----------------------------------------------------------------------------
(* Claims about the transport and the request builder (checked under SpecOps) *)

\* the exchange gave no status-200 response: a network exception or
\* another status
NoOkResponse(answer) == answer.net # "ok" \/ answer.status # HttpOk

ArgumentsAccepted ==
    CASE last.call = "ticket_create" -> last.args.ticket /\ last.args.article
      [] last.call = "ticket_get_by_id" -> Truthy(last.args.ticket_id)
      [] last.call = "ticket_get_by_list" -> last.args.is_list
      [] last.call = "ticket_get_by_number" -> ~last.args.number_is_int
      [] last.call = "ticket_update" ->
            Truthy(last.args.ticket_id) /\ (last.args.attachments => last.args.article)
      [] last.call = "ticket_update_set_pending" -> Truthy(last.args.ticket_id)
      [] last.call = "faq_public_faq_get" -> last.args.item_ids
      [] last.call = "faq_public_faq_search" -> last.args.search_dict # "other"
      [] OTHER -> TRUE

\* the last call was a ticket, FAQ or link operation made with a token in
\* memory and accepted arguments
PassedPreconditions ==
    /\ pc = "idle"
    /\ last.call \in OperationMethods
    /\ Truthy(store.value)
    /\ ArgumentsAccepted

\* C17 as stated: every ticket, FAQ or link operation call that passes its
\* precondition checks sends exactly one HTTP request, ticket_get_by_number
\* and the other wrappers included.
C17_ExactlyOneRequest ==
    PassedPreconditions => Len(events) = 1

\* C17 amended: every such call sends exactly one request, except
\* ticket_get_by_number, which sends its TicketSearch request and, only
\* after that succeeded, one TicketGet request; no call sends a request
\* after one of its requests failed.
C17_OneRequestOrSearchThenGet ==
    PassedPreconditions =>
        /\ last.call # "ticket_get_by_number" => Len(events) = 1
        /\ last.call = "ticket_get_by_number" =>
              /\ Len(events) \in {1, 2}
              /\ events[1].operation = "TicketSearch"
              /\ Len(events) = 2 => events[2].operation = "TicketGet"
        /\ \A i \in 1..(Len(events) - 1) : events[i].outcome = "none"

\* C17 witness: ticket_get_by_number returned a ticket after two requests
C17_Witness ==
    /\ PassedPreconditions
    /\ last.call = "ticket_get_by_number"
    /\ Len(events) = 2
    /\ last.exc = "none"
    /\ last.ret = Ticket(ATicket)

\* the last call ended with an argument error
ArgumentRefused ==
    /\ pc = "idle"
    /\ last.call \in RequestingMethods
    /\ last.exc \in {"ArgumentMissingError", "ArgumentInvalidError"}

\* C18: a call that fails with ArgumentMissingError or ArgumentInvalidError
\* has sent no HTTP request.
C18_ArgumentErrorNoRequest ==
    ArgumentRefused => events = <<>>

\* C18 witness: ticket_update with attachments and no article, made with a
\* token in memory, raised ArgumentMissingError
C18_Witness ==
    /\ ArgumentRefused
    /\ last.call = "ticket_update"
    /\ last.args.attachments /\ ~last.args.article
    /\ Truthy(store.value)
    /\ last.exc = "ArgumentMissingError"
    /\ events = <<>>

\* the last call was made with a token in memory on an operation whose
\* route is "<prefix>:TicketID", and no earlier check of the method refused it
TicketRouteCall ==
    /\ pc = "idle"
    /\ last.call \in {"ticket_get_by_id", "ticket_update", "ticket_update_set_pending"}
    /\ Truthy(store.value)
    /\ last.call = "ticket_update" => (last.args.attachments => last.args.article)

\* the URL of a ticket route: base, web-service path, name of the ticket
\* connector, route prefix and ticket id
TicketUrl(prefix, ticket_id) ==
    <<Fixed(client.cfg).baseurl, Fixed(client.cfg).webservice_path,
      TICKET_CONNECTOR_CONFIG_DEFAULT.Name, prefix>> \o Format(ticket_id)

\* C19: a call on a route with the :TicketID placeholder fails with
\* ArgumentMissingError and sends no request when it has no ticket id; with
\* a ticket id its request goes to base + web-service path + ticket
\* connector name + route prefix + ticket id.
C19_TicketIdRoute ==
    TicketRouteCall =>
        IF ~Truthy(last.args.ticket_id)
        THEN last.exc = "ArgumentMissingError" /\ events = <<>>
        ELSE /\ Len(events) = 1
             /\ events[1].url =
                  TicketUrl(IF last.call = "ticket_get_by_id" THEN "/Ticket/" ELSE "/Update/",
                            last.args.ticket_id)

-----------------------------------------------------------------------------
(* Claims about clients with their own connector tables (checked under SpecSetup) *)

ConnectorTables == {"ticket", "faq", "link"}

\* the connector tables of setup cfg whose route set contains the route
TablesWith(cfg, route) ==
    {tb \in ConnectorTables : route \in RoutesOf(ConnectorSetups[cfg][tb].Config)}

\* the route has a placeholder, and it is not :TicketID
OtherPlaceholder(route) == HasColon(route) /\ SplitSecond(route) # <<"TicketID">>

\* the last call set its operation and passed the checks of its arguments
OperationCalled ==
    /\ pc = "idle"
    /\ last.call \in RequestingMethods
    /\ last.exc \notin {"SessionNotCreated", "ArgumentMissingError", "ArgumentInvalidError"}

\* the route of the operation of the last call
RouteCalled == Fixed(client.cfg).ws_config[client.operation].Route

\* the connector name in the URL of a request: what follows the base URL
\* and the web-service path
ConnectorNameIn(url) == url[3]

\* C20: the connector name in the URL of a request is the name of the
\* connector table whose route set contains the operation's route; a call
\* on a route that is in none of the three route sets, or that has a
\* placeholder other than :TicketID, fails and sends no request.
C20_ConnectorOfRoute ==
    OperationCalled =>
        Let(RouteCalled, LAMBDA route :
        Let(TablesWith(client.cfg, route), LAMBDA tables :
        IF OtherPlaceholder(route) \/ tables = {}
        THEN last.exc # "none" /\ events = <<>>
        ELSE \A i \in 1..Len(events) :
                ConnectorNameIn(events[i].url) \in
                    {ConnectorSetups[client.cfg][tb].Name : tb \in tables}))

\* the operation names of connector table tb of setup cfg
OperationsOf(cfg, tb) == DOMAIN ConnectorSetups[cfg][tb].Config

\* C21: the three connector tables of a constructed Client share no
\* operation name (a Client whose tables share one is never constructed).
C21_OperationNamesUnique ==
    \A tb1 \in ConnectorTables : \A tb2 \in ConnectorTables \ {tb1} :
        OperationsOf(client.cfg, tb1) \cap OperationsOf(client.cfg, tb2) = {}

-----------------------------------------------------------------------------
(* Claims about the payloads and the session (checked under SpecOps) *)

\* the payload keys that come from the caller's own keywords or search_dict
OwnKeys ==
    CASE last.call = "ticket_search" -> DOMAIN last.args.kwargs
      [] last.call = "faq_public_faq_search" -> DOMAIN SearchDictOf(last.args.search_dict)
      [] OTHER -> {}

\* the username and the password of the client
Credentials == {Fixed(client.cfg).username, Fixed(client.cfg).password}

\* a ticket, FAQ or link operation has ended
OperationEnded == pc = "idle" /\ last.call \in OperationMethods

\* C22 as stated: every request payload of a ticket, FAQ or link operation
\* holds the token in memory under SessionID and neither username nor
\* password; the payload of session_create holds UserLogin and Password and
\* no SessionID.
C22_PayloadHoldsToken ==
    /\ OperationEnded =>
          \A i \in 1..Len(events) :
              /\ "SessionID" \in DOMAIN events[i].payload
              /\ events[i].payload["SessionID"] = store.value
              /\ DOMAIN events[i].payload \cap {"UserLogin", "Password"} = {}
              /\ \A k \in DOMAIN events[i].payload : events[i].payload[k] \notin Credentials
    /\ (pc = "idle" /\ last.call = "session_create") =>
          \A i \in 1..Len(events) :
              events[i].payload = [UserLogin |-> Fixed(client.cfg).username,
                                   Password |-> Fixed(client.cfg).password]

\* C22 amended: the same, apart from the keys the caller passes as search
\* keywords of ticket_search or in the search_dict of faq_public_faq_search,
\* which are copied into the payload as they are and replace SessionID when
\* they are named so.
C22_PayloadHoldsTokenUnlessOverridden ==
    /\ OperationEnded =>
          \A i \in 1..Len(events) :
              /\ "SessionID" \in DOMAIN events[i].payload
              /\ "SessionID" \notin OwnKeys => events[i].payload["SessionID"] = store.value
              /\ (DOMAIN events[i].payload \ OwnKeys) \cap {"UserLogin", "Password"} = {}
              /\ \A k \in DOMAIN events[i].payload : events[i].payload[k] \notin Credentials
    /\ (pc = "idle" /\ last.call = "session_create") =>
          \A i \in 1..Len(events) :
              events[i].payload = [UserLogin |-> Fixed(client.cfg).username,
                                   Password |-> Fixed(client.cfg).password]

\* C22 witness: ticket_search called with a keyword SessionID sent the
\* caller's value in place of the token in memory
C22_Witness ==
    /\ OperationEnded
    /\ last.call = "ticket_search"
    /\ "SessionID" \in OwnKeys
    /\ Len(events) = 1
    /\ Truthy(store.value)
    /\ events[1].payload["SessionID"] = PyStr(<<"other">>)
    /\ events[1].payload["SessionID"] # store.value

-----------------------------------------------------------------------------
(* More claims about session_restore_or_set_up_new (checked under Spec) *)

\* the call began with the probe of a cached token, and the probe failed
\* with something other than APIError
ProbeBroke(evs) ==
    evs # <<>> /\ IsRequest(evs[1], "TicketGet") /\ evs[1].outcome \notin {"none", "APIError"}

\* C23: when the probe of a cached token fails with anything other than
\* APIError, session_restore_or_set_up_new ends with that failure, has
\* written nothing to the credential file and has sent no session-create
\* request.
C23_ProbeFailurePropagates ==
    [][(RestoreEnds /\ ProbeBroke(events')) =>
          /\ last'.exc = events'[1].outcome
          /\ Len(events') = 1
          /\ file' = file
          /\ store'.value = store.value]_vars

\* C23 witness: the probe of the cached token got no answer and the call
\* ended with HTTPError, the record still in the file
C23_Witness ==
    /\ Restored
    /\ Probed(events, "HTTPError")
    /\ last.exc = "HTTPError"
    /\ Len(events) = 1
    /\ WellFormedTrusted(file)
    /\ TokenOf(file) = PyStr(<<"abc123">>)

\* the call that has just returned got a token from a SessionCreate answer
CreatedSession(call) ==
    /\ pc = "idle"
    /\ last.call = call
    /\ last.exc = "none"
    /\ last.ret = PyBool(TRUE)
    /\ \E i \in 1..Len(events) :
          IsRequest(events[i], "SessionCreate") /\ events[i].outcome = "none"

\* the record in the file holds the token the store holds in memory
PersistedIsHeld ==
    WellFormedTrusted(file) /\ TokenOf(file) = store.value

\* C24: whenever session_create, called directly or inside
\* session_restore_or_set_up_new, has got a token from a successful
\* session-create response, the token in memory equals the session_id of the
\* record in the credential file.
C24_HeldTokenIsPersisted ==
    (CreatedSession("session_create") \/ CreatedSession("session_restore_or_set_up_new"))
        => PersistedIsHeld

\* C24, for session_restore_or_set_up_new alone: after a restore that got
\* its token from a session-create response, the token in memory is the
\* SessionID of that response and the session_id of the record in the file;
\* session_create called directly holds the token in memory and never
\* touches the file.
C24_RestoreHeldTokenIsPersisted ==
    [][ /\ CreatedSession("session_restore_or_set_up_new")' =>
            /\ PersistedIsHeld'
            /\ store'.value = client'.result_json.d["SessionID"]
            /\ last'.token = store'.value
        /\ (pc = "idle" /\ last'.call = "session_create") =>
            /\ file' = file
            /\ CreatedSession("session_create")' =>
                  store'.value = client'.result_json.d["SessionID"] ]_vars

\* C24 witness: a restore that found a refused or expired record created a
\* session, and the file that was there holds the new token
C24_Witness ==
    /\ CreatedSession("session_restore_or_set_up_new")
    /\ IsWrite(events[Len(events) - 1])
    /\ events[Len(events) - 1].existed
    /\ PersistedIsHeld
    /\ Truthy(store.value)

-----------------------------------------------------------------------------
(* Claims about failed operations (checked under SpecOps) *)

\* C25: when a ticket, FAQ or link operation fails with APIError, the
\* request the remote refused is the last one of the call and no
\* session-create request is among the call's requests, the earlier
\* requests of the call had succeeded, and the SessionStore in memory and
\* the credential file are as they were before the call.
C25_APIErrorSurfacedNoRefresh ==
    [][(calls' # calls /\ last'.call \in OperationMethods /\ last'.exc = "APIError") =>
          LET n == Len(events') IN
          /\ n >= 1
          /\ n <= (IF last'.call = "ticket_get_by_number" THEN 2 ELSE 1)
          /\ events'[n].outcome = "APIError"
          /\ \A i \in 1..n :
                /\ ~IsRequest(events'[i], "SessionCreate")
                /\ i < n => events'[i].outcome = "none"
          /\ store' = store
          /\ file' = file
          /\ last'.token = store.value]_vars

\* C25 witness: with a session in memory, ticket_update was refused by the
\* remote with an Error answer; the call raised APIError and the token is
\* still held
C25_Witness ==
    /\ OperationEnded
    /\ last.call = "ticket_update"
    /\ last.exc = "APIError"
    /\ Len(events) = 1
    /\ events[1].outcome = "APIError"
    /\ client.result_error
    /\ Truthy(store.value)
    /\ last.token = store.value

-----------------------------------------------------------------------------
(* More claims about the SessionStore (checked under SpecStore) *)

\* this step is the "return True" of a write() called on the store
WriteReturns ==
    pc = "w_validate" /\ frame.call = "write" /\ pc' = "idle" /\ last'.exc = "none"

\* C26: after every write() that returns True, the file exists, is owned by
\* the process user, has mode exactly 0600, and its text is a record of two
\* keys: session_id, the value written (which is also the value in memory),
\* and created, the whole seconds of the clock at the time of writing.
C26_WriteLeavesPrivateRecord ==
    [][WriteReturns =>
          /\ last'.ret = PyBool(TRUE)
          /\ file'.exists
          /\ file'.owner = SelfUid
          /\ file'.mode = OwnerReadWrite
          /\ file'.content.k = "object"
          /\ DOMAIN file'.content.m = {"created", "session_id"}
          /\ TokenOf(file') = last'.args.new_value
          /\ store'.value = last'.args.new_value
          /\ JsonLoads(file'.content.m["created"]).t = "str"
          /\ IntOf(JsonLoads(file'.content.m["created"])).exc = "none"
          /\ CreatedOf(file') = now' \div TicksPerSec]_vars

\* C26 witness: write() of a token returned True on a file that was there
\* with the setuid bit set, at a later time than the start; the file now has
\* mode 0600 and holds the token
C26_Witness ==
    /\ pc = "idle"
    /\ last.call = "write"
    /\ last.exc = "none"
    /\ Len(events) = 2
    /\ events[1].existed
    /\ events[1].mode = 2432
    /\ file.mode = OwnerReadWrite
    /\ file.owner = SelfUid
    /\ TokenOf(file) = PyStr(<<"abc123">>)
    /\ CreatedOf(file) > 0

-----------------------------------------------------------------------------
(* Claims about a refused session-create (checked under Spec) *)

\* the restore sent a session-create request and the remote refused it: the
\* status-200 answer is an object with an Error and no SessionID
CreateRefused ==
    /\ Restored
    /\ events # <<>>
    /\ IsRequest(events[Len(events)], "SessionCreate")
    /\ events[Len(events)].answer = [net |-> "ok", status |-> HttpOk, json |-> TRUE]
    /\ client.result_json.t = "dict"
    /\ "Error" \in DOMAIN client.result_json.d
    /\ "SessionID" \notin DOMAIN client.result_json.d

\* C27: when the remote refuses the session-create request of
\* session_restore_or_set_up_new, the call fails with SessionCreateError.
C27_CreateRefusedSessionCreateError ==
    CreateRefused => last.exc = "SessionCreateError"

-----------------------------------------------------------------------------
(* Claims about what the operations return (checked under SpecOps) *)

\* C28: link_list, answered with an object without Error, returns the
\* value under LinkList if it is there and not empty, and None if the list
\* is empty or absent.
C28_LinkListReturnsLinks ==
    (AnsweredWithObject("link_list") /\ "Error" \notin DOMAIN client.result_json.d) =>
        /\ last.exc = "none"
        /\ IF Truthy(Get(client.result_json, "LinkList"))
           THEN last.ret = client.result_json.d["LinkList"]
           ELSE last.ret = PyNone

-----------------------------------------------------------------------------
(* Claims about the session timeout (checked under SpecStore) *)

\* the record in the file was created more than the store's timeout, taken
\* as a number of seconds, before the current time
OlderThanTimeoutSeconds(f, st, clock) ==
    clock > (CreatedOf(f) + st.timeout) * TicksPerSec

\* C29: the session timeout is a number of seconds: read() never returns
\* the token of a record that was created more than session_timeout seconds
\* ago.
C29_TimeoutInSeconds ==
    [][ (store_read /\ WellFormedTrusted(file)
            /\ OlderThanTimeoutSeconds(file, store, now)) =>
          /\ last'.exc = "none"
          /\ last'.ret = PyNone ]_vars

-----------------------------------------------------------------------------
(* Claims about SessionStore.delete (checked under SpecStore) *)

\* C30: delete() raises NotImplementedError on every call, whatever the
\* file and the fields of the store are, and leaves the file and the store
\* as they were.
C30_DeleteAlwaysFails ==
    [][store_delete =>
          /\ last'.call = "delete"
          /\ last'.exc = "NotImplementedError"
          /\ last'.ret = PyNone
          /\ file' = file
          /\ store' = store
          /\ last'.token = store.value]_vars

\* C30 witness: delete() has just failed on a store that holds a token in
\* memory and a trusted record of that token in its file
C30_Witness ==
    /\ pc = "idle"
    /\ last.call = "delete"
    /\ last.exc = "NotImplementedError"
    /\ WellFormedTrusted(file)
    /\ Truthy(store.value)
    /\ TokenOf(file) = store.value

-----------------------------------------------------------------------------
(* Claims about the FAQ search result (checked under SpecOps) *)

\* the hits the remote reports under 'found': none, the one ID it sends as
\* a scalar, or the IDs of the list it sends
HitsOf(found) ==
    IF ~Truthy(found) THEN <<>>
    ELSE IF found.t = "list" THEN found.l
    ELSE <<found>>

\* C32: faq_public_faq_search that returns, returns the flat list of the
\* IDs found: [] for no hit, a one-element list for one hit, sent as a
\* scalar or as a one-element list, and the list itself for several hits.
C32_FaqSearchFlatList ==
    (AnsweredWithObject("faq_public_faq_search") /\ last.exc = "none") =>
        last.ret = PyList(HitsOf(Get(client.result_json, "ID")))

-----------------------------------------------------------------------------
(* Claims about a failed restore (checked under Spec) *)

\* session_restore_or_set_up_new has just failed
RestoreFailed == Restored /\ last.exc # "none"

\* C33: after session_restore_or_set_up_new fails with any error, the store
\* holds no token in memory, and a ticket operation called next fails with
\* SessionNotCreated and sends nothing.
C33_FailedRestoreHoldsNoToken ==
    [][ /\ RestoreFailed' => ~Truthy(store'.value)
        /\ (RestoreFailed /\ last'.call = "ticket_get_by_id") =>
              (last'.exc = "SessionNotCreated" /\ events' = <<>>) ]_vars

-----------------------------------------------------------------------------
(* Claims about the value the store keeps in memory (checked under SpecStore) *)

\* read() has just returned None
ReadAbsent ==
    pc = "idle" /\ last.call = "read" /\ last.exc = "none" /\ last.ret = PyNone

\* C34: after read() returns None, for a missing, untrusted, unparsable or
\* expired record, the store holds no token in memory.
C34_AbsentReadHoldsNoToken ==
    ReadAbsent => ~Truthy(store.value)

\* this step ends a write() called on the store with an exception
WriteFails ==
    pc # "idle" /\ frame.call = "write" /\ pc' = "idle" /\ last'.exc # "none"

\* C35: when write() fails, at the check of a file that is already there or
\* at a later statement, the value the store holds in memory is the one it
\* held before the call (last.token: the value when the call before ended),
\* None and "" both being no token.
C35_FailedWriteKeepsValue ==
    [][WriteFails =>
          \/ store'.value = last.token
          \/ ~Truthy(store'.value) /\ ~Truthy(last.token)]_vars

-----------------------------------------------------------------------------
(* Claims about the file during a restore (checked under Spec) *)

\* session_restore_or_set_up_new is running
RestoreRunning == pc # "idle" /\ frame.call = "session_restore_or_set_up_new"

\* the file holds no token, or only its owner, the process user, can open it
EmptyOrPrivate(f) ==
    /\ f.exists
    /\ f.owner = SelfUid
    /\ ~Truthy(TokenOf(f)) \/ f.mode = OwnerReadWrite

-----------------------------------------------------------------------------
(* Claims about the URL of each request (checked under SpecSetup) *)

\* the route of operation op in the registry of the client, without its
\* placeholder
RoutePrefixOf(op) ==
    Let(Fixed(client.cfg).ws_config[op].Route, LAMBDA route :
    IF HasColon(route) THEN SplitHead(route) ELSE route)

\* what follows the base URL, the web-service path and the connector name
RouteIn(url, n) == SubSeq(url, 4, 3 + n)

\* C38: every request of a call goes to a URL built from the route of the
\* operation the request is for: after base, web-service path and connector
\* name comes that operation's route, never what an earlier call left.
C38_UrlOfCurrentOperation ==
    (pc = "idle" /\ last.call \in RequestingMethods) =>
        \A i \in 1..Len(events) :
            Let(RoutePrefixOf(events[i].operation), LAMBDA prefix :
            /\ Len(events[i].url) >= 3 + Len(prefix)
            /\ RouteIn(events[i].url, Len(prefix)) = prefix)

-----------------------------------------------------------------------------
(* Claims about a restore on an untrusted file (checked under Spec) *)

\* the file is there and fails the trust check: another owner, or
\* permission bits other than 0600
Untrusted(f) == f.exists /\ ~validate_file_owner_and_permissions(f)

\* C39: on an untrusted credential file, session_restore_or_set_up_new goes
\* from read() straight to write(""), which raises IOError: the call has
\* sent no request and written nothing, the file is as it was, and so is
\* every repetition of the call.
C39_UntrustedFileIOError ==
    [][Untrusted(file) =>
          /\ restore_read =>
                (pc' = "w_check" /\ frame'.warg = PyStr(<<>>) /\ file' = file)
          /\ (RestoreRunning /\ pc = "w_check") =>
                /\ pc' = "idle"
                /\ last'.call = "session_restore_or_set_up_new"
                /\ last'.exc = "IOError"
                /\ events' = <<>>
                /\ file' = file]_vars

\* C39 witness: a restore has failed with IOError on the file of another
\* owner, which still holds its record; nothing was sent or written
C39_Witness ==
    /\ Restored
    /\ last.exc = "IOError"
    /\ events = <<>>
    /\ Untrusted(file)
    /\ file.owner = OtherUid
    /\ TokenOf(file) = PyStr(<<"abc123">>)

-----------------------------------------------------------------------------
(* Two processes of the same user on one credential file.  Each process has
   its own SessionStore and Client; the variables store, client, pc, frame,
   events and last hold one value per process, the file is shared and no
   lock is taken.  A step is one statement of write() or of
   session_restore_or_set_up_new in one of the processes. *)

Procs == {"p1", "p2"}

\* the token the remote issues to each process
IssuedTo == [p1 |-> <<"abc123">>, p2 |-> <<"x", "\"", "\\", "y">>]

\* the call of process p ends: it returns ret or raises exc
ProcFinish(p, exc, ret) ==
    /\ pc' = [pc EXCEPT ![p] = "done"]
    /\ last' = [last EXCEPT ![p] = Outcome(frame[p].call, frame[p].args, exc, ret,
                                           PyNone, store'[p].value)]
    /\ frame' = [frame EXCEPT ![p] = IdleFrame]

\* self.value = new_value; then the check of a file that is already there
proc_write_check(p) ==
    /\ pc[p] = "w_check"
    /\ store' = [store EXCEPT ![p].value = frame[p].warg]
    /\ IF file.exists /\ ~validate_file_owner_and_permissions(file)
       THEN ProcFinish(p, "IOError", PyNone)
       ELSE pc' = [pc EXCEPT ![p] = "w_open"] /\ UNCHANGED <<frame, last>>
    /\ UNCHANGED <<file, now, client, events, calls>>

\* with open(self.file_path, 'w') as f: f.write(json.dumps({...}))
proc_write_open(p) ==
    /\ pc[p] = "w_open"
    /\ UNCHANGED <<now, store, client, calls>>
    /\ IF file.exists /\ (file.owner # SelfUid \/ (file.mode \div 128) % 2 = 0)
       THEN ProcFinish(p, "IOError", PyNone) /\ UNCHANGED <<file, events>>
       ELSE /\ \E m \in CreateModes :
                file' = [exists  |-> TRUE,
                         owner   |-> IF file.exists THEN file.owner ELSE SelfUid,
                         mode    |-> IF file.exists THEN file.mode ELSE m,
                         content |-> RecordText(now, store[p].value)]
            /\ events' = [events EXCEPT
                            ![p] = Append(@, WriteEvent(file'.content, file'.mode, file.exists))]
            /\ pc' = [pc EXCEPT ![p] = "w_chmod"]
            /\ UNCHANGED <<frame, last>>

\* os.chmod(self.file_path, 384)
proc_write_chmod(p) ==
    /\ pc[p] = "w_chmod"
    /\ UNCHANGED <<now, store, client, calls>>
    /\ IF ~file.exists \/ file.owner # SelfUid
       THEN ProcFinish(p, "OSError", PyNone) /\ UNCHANGED <<file, events>>
       ELSE /\ file' = [file EXCEPT !.mode = OwnerReadWrite]
            /\ events' = [events EXCEPT ![p] = Append(@, ChmodEvent)]
            /\ pc' = [pc EXCEPT ![p] = "w_validate"]
            /\ UNCHANGED <<frame, last>>

\* a check after writing that reads the record back and compares the token
proc_write_validate_read_back(p) ==
    /\ pc[p] = "w_validate"
    /\ UNCHANGED <<file, now, store, client, events, calls>>
    /\ IF ~file.exists \/ ~validate_file_owner_and_permissions(file)
          \/ TokenOf(file) # store[p].value
       THEN ProcFinish(p, "IOError", PyNone)
       ELSE IF frame[p].wret = "return"
       THEN ProcFinish(p, "none", PyBool(TRUE))
       ELSE pc' = [pc EXCEPT ![p] = frame[p].wret] /\ UNCHANGED <<frame, last>>

\* the check after writing, and "return True" to the caller of write()
proc_write_validate(p) ==
    /\ pc[p] = "w_validate"
    /\ UNCHANGED <<file, now, store, client, events, calls>>
    /\ IF ~file.exists \/ ~validate_file_owner_and_permissions(file)
       THEN ProcFinish(p, "IOError", PyNone)
       ELSE IF frame[p].wret = "return"
       THEN ProcFinish(p, "none", PyBool(TRUE))
       ELSE pc' = [pc EXCEPT ![p] = frame[p].wret] /\ UNCHANGED <<frame, last>>

\* process p calls store.write(new_value)
proc_store_write(p) ==
    /\ pc[p] = "idle"
    /\ \E tok \in Tokens :
        frame' = [frame EXCEPT ![p] = [call |-> "write", args |-> [new_value |-> PyStr(tok)],
                                       warg |-> PyStr(tok), wret |-> "return"]]
    /\ pc' = [pc EXCEPT ![p] = "w_check"]
    /\ calls' = calls + 1
    /\ UNCHANGED <<file, now, store, client, events, last>>

\* both processes idle, each with a new store and client
InitProcs ==
    /\ now = 0
    /\ store = [p \in Procs |-> NewStore(MaxTimeout)]
    /\ client = [p \in Procs |-> ClientInit("default")]
    /\ pc = [p \in Procs |-> "idle"]
    /\ frame = [p \in Procs |-> IdleFrame]
    /\ events = [p \in Procs |-> <<>>]
    /\ last = [p \in Procs |-> Outcome("none", NoArgs, "none", PyNone, PyNone, PyNone)]
    /\ calls = 0

\* two writers: no file or a file of any trust at the start
InitWriters == InitProcs /\ file \in ClientFiles

NextWriters ==
    \E p \in Procs :
        \/ proc_store_write(p)
        \/ proc_write_check(p)
        \/ proc_write_open(p)
        \/ proc_write_chmod(p)
        \/ proc_write_validate(p)

SpecWriters == InitWriters /\ [][NextWriters]_vars

\* a remote that accepts: the probe finds the ticket, session-create issues
\* the token of the process
AcceptedProbe ==
    [net |-> "ok", status |-> HttpOk, body |-> DictOf("Ticket" :> PyList(<<ATicket>>))]
AcceptedCreate(p) ==
    [net |-> "ok", status |-> HttpOk, body |-> DictOf("SessionID" :> PyStr(IssuedTo[p]))]

\* self.session_id_store.value = self.session_id_store.read()
proc_restore_read(p) ==
    /\ pc[p] = "idle"
    /\ calls' = calls + 1
    /\ LET r == read(file, store[p], now) IN
        IF r.exc # "none"
        THEN /\ store' = [store EXCEPT ![p] = r.store]
             /\ pc' = [pc EXCEPT ![p] = "done"]
             /\ last' = [last EXCEPT ![p] =
                           Outcome("session_restore_or_set_up_new", NoArgs, r.exc, PyNone,
                                   PyNone, r.store.value)]
             /\ UNCHANGED frame
        ELSE /\ store' = [store EXCEPT ![p] = [r.store EXCEPT !.value = r.ret]]
             /\ IF Truthy(r.ret)
                THEN /\ pc' = [pc EXCEPT ![p] = "r_probe"]
                     /\ frame' = [frame EXCEPT ![p] = RestoreFrame(PyNone, "none")]
                ELSE /\ pc' = [pc EXCEPT ![p] = "w_check"]
                     /\ frame' = [frame EXCEPT ![p] = RestoreFrame(PyStr(<<>>), "r_create")]
             /\ UNCHANGED last
    /\ UNCHANGED <<file, now, client, events>>

\* the probe of the token read, against the accepting remote
proc_restore_probe(p) ==
    /\ pc[p] = "r_probe"
    /\ UNCHANGED <<file, now, store, calls>>
    /\ \E o \in {session_check_is_valid(client[p], store[p], store[p].value, AcceptedProbe)} :
        /\ client' = [client EXCEPT ![p] = o.cl]
        /\ events' = [events EXCEPT ![p] = @ \o o.ev]
        /\ IF o.exc = "none" /\ Truthy(o.ret) THEN ProcFinish(p, "none", PyBool(TRUE))
           ELSE IF o.exc \in {"none", "APIError"}
           THEN /\ pc' = [pc EXCEPT ![p] = "w_check"]
                /\ frame' = [frame EXCEPT ![p] = RestoreFrame(PyStr(<<>>), "r_create")]
                /\ UNCHANGED last
           ELSE ProcFinish(p, o.exc, PyNone)

\* if not self.session_create(): raise SessionCreateError; then write(SessionID)
proc_restore_create(p) ==
    /\ pc[p] = "r_create"
    /\ \E o \in {session_create(client[p], store[p], AcceptedCreate(p))} :
        /\ client' = [client EXCEPT ![p] = o.cl]
        /\ store' = [store EXCEPT ![p] = o.st]
        /\ events' = [events EXCEPT ![p] = @ \o o.ev]
        /\ IF o.exc # "none" THEN ProcFinish(p, o.exc, PyNone)
           ELSE IF ~Truthy(o.ret) THEN ProcFinish(p, "SessionCreateError", PyNone)
           ELSE /\ pc' = [pc EXCEPT ![p] = "w_check"]
                /\ frame' = [frame EXCEPT
                               ![p] = RestoreFrame(o.cl.result_json.d["SessionID"], "return")]
                /\ UNCHANGED last
    /\ UNCHANGED <<file, now, calls>>

\* two restores, no credential file at the start
InitRestores == InitProcs /\ file = NoFile

NextRestores ==
    \E p \in Procs :
        \/ proc_restore_read(p)
        \/ proc_restore_probe(p)
        \/ proc_restore_create(p)
        \/ proc_write_check(p)
        \/ proc_write_open(p)
        \/ proc_write_chmod(p)
        \/ proc_write_validate(p)

SpecRestores == InitRestores /\ [][NextRestores]_vars

-----------------------------------------------------------------------------
(* Claims about two writers of one file (checked under SpecWriters) *)

\* write() of process p has returned True
WriteSucceeded(p) ==
    pc[p] = "done" /\ last[p].call = "write" /\ last[p].exc = "none"

\* this step is the check after writing of process p, and it ends write()
ChecksAfterWriting(p) == pc[p] = "w_validate" /\ pc'[p] = "done"

\* C31: the check after writing of write() looks at the owner and the mode
\* of the file only: write() returns True whenever the file passes the
\* trust check, also when the record in the file is by then the other
\* writer's; and when both writers have returned True the file holds the
\* token of one of them only.
C31_LostUpdateNotFlagged ==
    [][ /\ \A p \in Procs : ChecksAfterWriting(p) =>
              /\ (last'[p].exc = "none") <=> validate_file_owner_and_permissions(file)
              /\ last'[p].exc = "none" => last'[p].ret = PyBool(TRUE)
        /\ (\A p \in Procs : WriteSucceeded(p))' =>
              /\ WellFormedTrusted(file')
              /\ \E p \in Procs : TokenOf(file') = last'[p].args.new_value ]_vars

\* C31 witness: with no file at the start both writers passed the first
\* check, p1 created the file, p2 wrote its other token over it before p1
\* forced the mode, and both writes returned True: the file holds the token
\* of p2 and the token of p1 is lost
C31_Witness ==
    /\ \A p \in Procs : WriteSucceeded(p)
    /\ last["p1"].args.new_value # last["p2"].args.new_value
    /\ ~events["p1"][1].existed
    /\ events["p2"][1].existed
    /\ events["p2"][1].mode # OwnerReadWrite
    /\ TokenOf(file) = last["p2"].args.new_value
    /\ store["p1"].value # TokenOf(file)

-----------------------------------------------------------------------------
(* Claims about two concurrent restores (checked under SpecRestores) *)

\* C37: of two processes that run session_restore_or_set_up_new at the same
\* time, with no credential file at the start and a remote that accepts,
\* neither fails with the IOError of write(), at the check before writing
\* or at the check after it.
C37_NoIOErrorForConcurrentRestores ==
    \A p \in Procs : last[p].exc # "IOError"

====
